---------------------------- MODULE Spec2Model ----------------------------
(***************************************************************************)
(* Indoor wayfinding engine (MapEngine, MinHeap): per-floor node/edge     *)
(* files are loaded into one global graph, same-named stairs/elevators    *)
(* are linked across floors, and calculatePath runs a heap-based Dijkstra *)
(* with accessibility-dependent edge costs.                               *)
(*                                                                         *)
(* Encoding.  A node id `${floor}_${local}` is the pair <<floor, local>>  *)
(* (the floor prefix contains no "_", so the string is injective in the   *)
(* pair).  A name is a sequence of characters, so that String.includes is *)
(* a real substring search.  Path costs are held in tenths (Scale), so    *)
(* that the elevator factor 0.1 is exact.  A property that a JavaScript   *)
(* object does not carry is a field missing from the record's DOMAIN.     *)
(*                                                                         *)
(* Scope.  The state is the graph, the layout, the active path, the two   *)
(* route selectors of the UI controller, and the view: transform,         *)
(* rotation, drag flag and the d3 transitions of the canvas.  What draw   *)
(* alone reads (markers, highlight, current floor) is not part of it.     *)
(*                                                                         *)
(* Specifications.  Spec follows UIController.init and the route          *)
(* triggers on three maps; SpecLayout follows loadAllData on every        *)
(* assignment of the floor files, then updateFloorLayout; SpecPlan        *)
(* applies calculatePath to every small stored graph; SpecViewer follows  *)
(* the view methods, the pointer handlers and the d3 timer.  In Spec and  *)
(* SpecPlan a step of a handler includes the animation it starts, run to  *)
(* its end; calls that meet a running animation are steps of SpecViewer.  *)
(***************************************************************************)
EXTENDS Integers, Sequences, FiniteSets, TLC

VARIABLES
    floorJson,          \* the per-floor JSON files served to fetch (input)
    pc,                 \* position of loadAllData
    pending,            \* floors whose JSON callback has not run yet
    floorOffsets,       \* this.floorOffsets
    floorCropX,         \* this.floorCropX (in tenths)
    globalNodes,        \* this.globalNodes (array of node objects)
    globalEdges,        \* this.globalEdges
    idMap,              \* this.idMap: id -> index of the object in globalNodes
    adj,                \* this.adj
    floorVisuals,       \* this.floorVisuals
    layoutPath,         \* the pathNodes of the last updateFloorLayout call
    accessibilityMode,  \* this.accessibilityMode
    path,               \* this.path
    startSelect,        \* UIController.startSelect.value
    endSelect,          \* UIController.endSelect.value
    call,               \* the last calculatePath call: arguments and result
    transform,          \* this.transform
    zoomState,          \* canvas.__zoom, the transform d3.zoom holds
    rotation,           \* this.rotation, in degrees
    enableAutoRotation, \* this.enableAutoRotation
    isDragging,         \* this.isDragging
    running,            \* the d3 transition of the canvas that runs
    scheduled,          \* the d3 transitions created and not yet started
    viewTargets,        \* what the most recent calls aim transform and rotation at
    viewCall,           \* the last call of a view method: arguments, view found
    inputs,             \* number of inputs taken so far, where they are bounded
    scanner,            \* the QR scanner of UIController: flags, video, awaits, frames
    routeList,          \* the node ids of the steps shown in UIController.routeList
    minHeap             \* a MinHeap: this.heap, with its pushes, pops and last result

viewVars == <<transform, zoomState, rotation, enableAutoRotation, isDragging,
              running, scheduled, viewTargets, viewCall>>

vars == <<floorJson, pc, pending, floorOffsets, floorCropX, globalNodes,
          globalEdges, idMap, adj, floorVisuals, layoutPath,
          accessibilityMode, path, startSelect, endSelect, call, viewVars, inputs, scanner,
          routeList, minHeap>>

-----------------------------------------------------------------------------
(* Bounds and program constants *)

NumFloors == 3
MaxEdges == 3
NumNodes == 3
MaxScheduled == 1
MaxRotation == 360
MaxInputs == 3
MaxCalls == 1

Scale == 10
FLOOR_GAP == 200
DEFAULT_FLOOR_ID == 2
TARGET_WIDTH == 940
FallbackHeight == 1000
TransferUnit == 150
StairsPenalty == 50000
ElevatorPenalty == 2000

FLOORS == 1..NumFloors

Undefined == "undefined"

\* obj[k] for a property that may be absent
Prop(obj, k) == IF k \in DOMAIN obj THEN obj[k] ELSE Undefined

Abs(n) == IF n < 0 THEN -n ELSE n

Range(s) == {s[i] : i \in DOMAIN s}

-----------------------------------------------------------------------------
(* Input files *)

Nd(id, type, name, conn, x, y) ==
    [id |-> id, type |-> type, name |-> name, connectionId |-> conn,
     x |-> x, y |-> y]

\* a JSON value with its typeof
Num(n) == [typeof |-> "number", val |-> n]
Str(s) == [typeof |-> "string", val |-> s]

Ed(from, to) == [from |-> from, to |-> to]
EdD(from, to, dist) == [from |-> from, to |-> to, dist |-> Num(dist)]
EdS(from, to, dist) == [from |-> from, to |-> to, dist |-> Str(dist)]
EdB(from, to, dist) ==
    [from |-> from, to |-> to, dist |-> Num(dist), barrierFreeBlocked |-> TRUE]
EdNB(from, to) == [from |-> from, to |-> to, barrierFreeBlocked |-> TRUE]

NoName == <<>>
MaleToilet == <<"m", "k", "W", "C">>
FemaleToilet == <<"f", "s", "W", "C">>

FetchFails == [failed |-> TRUE]

FileA ==
    [nodes |-> << Nd("a", "room", <<"R">>, NoName, 100, 100),
                  Nd("b", "stairs", <<"S">>, NoName, 300, 100),
                  Nd("c", "elevator", <<"E">>, NoName, 100, 400) >>,
     edges |-> << EdD("a", "b", 10), EdD("a", "c", 100) >>]

FileB ==
    [nodes |-> << Nd("a", "vending", NoName, NoName, 200, 200),
                  Nd("b", "stairs", <<"S">>, NoName, 300, 100),
                  Nd("c", "elevator", <<"E">>, NoName, 100, 400) >>,
     edges |-> << EdD("a", "z", 5), EdNB("a", "b"), EdD("b", "c", 20) >>]

FileC ==
    [nodes |-> << Nd("a", "toilet", MaleToilet, <<"K">>, 50, 60),
                  Nd("b", "stairs", <<"X">>, NoName, 300, 100),
                  Nd("c", "elevator", <<"X">>, NoName, 100, 400),
                  Nd("d", "toilet", FemaleToilet, <<"K">>, 70, 60) >>,
     edges |-> << EdB("a", "b", 30), EdD("a", "c", 40), Ed("d", "a") >>]

FileD ==
    [nodes |-> << Nd("a", "room", <<"R">>, NoName, 100, 100),
                  Nd("b", "stairs", <<"S">>, NoName, 300, 100),
                  Nd("a", "room", <<"Q">>, NoName, 500, 100) >>,
     edges |-> << EdD("a", "b", 7), EdS("b", "a", "3") >>]

\* a floor with two elevator doors of one name
FileE ==
    [nodes |-> << Nd("a", "room", <<"R">>, NoName, 100, 100),
                  Nd("b", "elevator", <<"E">>, NoName, 300, 100),
                  Nd("c", "elevator", <<"E">>, NoName, 100, 400) >>,
     edges |-> << EdD("a", "b", 10), EdD("a", "c", 40) >>]

FloorFiles == {FileA, FileB, FileC, FileD, FileE, FetchFails}

\* the floor images: [width, height] once loaded (height 0: failed to load)
Images == [f \in FLOORS |-> IF f = 2 THEN [width |-> 1000, height |-> 0]
                                     ELSE [width |-> 1000, height |-> 800]]

-----------------------------------------------------------------------------
(* loadAllData: node and edge records of one floor file *)

NodeId(f, local) == <<f, local>>

\* the object stored for an input node (part_000:530-539), coordinates in tenths
MakeNode(conf, node, xCrop, yOffset) ==
    [id |-> NodeId(conf, node.id),
     originalId |-> node.id,
     floorId |-> conf,
     type |-> node.type,
     name |-> node.name,
     connectionId |-> node.connectionId,
     x |-> node.x * Scale - xCrop,
     baseX |-> node.x * Scale - xCrop,
     localY |-> node.y,
     y |-> (node.y + yOffset) * Scale]

\* data.nodes.forEach: idMap.set(newId, obj); globalNodes.push(idMap.get(newId))
RECURSIVE LoadNodes(_, _, _, _)
LoadNodes(conf, nodes, i, st) ==
    IF i > Len(nodes) THEN st
    ELSE LET obj == MakeNode(conf, nodes[i], floorCropX[conf], floorOffsets[conf])
             gn  == Append(st.globalNodes, obj)
             im  == (obj.id :> Len(gn)) @@ st.idMap
         IN LoadNodes(conf, nodes, i + 1, [st EXCEPT !.globalNodes = gn, !.idMap = im])

\* typeof edge.dist === 'number'
IsNumber(edge) == "dist" \in DOMAIN edge /\ edge.dist.typeof = "number"

\* the edge stored for an input edge (part_000:550-556)
MakeEdge(conf, edge) ==
    [from |-> NodeId(conf, edge.from),
     to |-> NodeId(conf, edge.to),
     dist |-> IF IsNumber(edge) THEN edge.dist.val ELSE 1,
     floorId |-> conf]

\* mutant: only the from endpoint is looked up
EdgeAcceptedFromOnly(conf, edge, im) == NodeId(conf, edge.from) \in DOMAIN im

\* the guard of part_000:549
EdgeAccepted(conf, edge, im) ==
    NodeId(conf, edge.from) \in DOMAIN im /\ NodeId(conf, edge.to) \in DOMAIN im

\* data.edges.forEach
RECURSIVE LoadEdges(_, _, _, _)
LoadEdges(conf, edges, i, st) ==
    IF i > Len(edges) THEN st
    ELSE LoadEdges(conf, edges, i + 1,
            IF EdgeAccepted(conf, edges[i], st.idMap)
            THEN [st EXCEPT !.globalEdges = Append(@, MakeEdge(conf, edges[i]))]
            ELSE st)

\* the body of one jsonPromises callback, after its two awaits
LoadFloor(conf, data, st) ==
    IF "failed" \in DOMAIN data THEN st
    ELSE LoadEdges(conf, data.edges, 1, LoadNodes(conf, data.nodes, 1, st))

-----------------------------------------------------------------------------
(* buildGlobalGraph *)

\* the connection key of a node, <<>> when it is not grouped (part_000:244-256)
ConnectionKey(n) ==
    IF n.name # <<>> /\ n.type \in {"stairs", "elevator"} THEN n.name
    ELSE IF n.connectionId # <<>> THEN n.connectionId
    ELSE <<>>

\* connectionMap as the list of its entries <<key, nodes>> in insertion order
RECURSIVE ConnectionMap(_, _, _)
ConnectionMap(nodes, i, cm) ==
    IF i > Len(nodes) THEN cm
    ELSE LET key == ConnectionKey(nodes[i])
             at  == {j \in DOMAIN cm : cm[j][1] = key}
         IN ConnectionMap(nodes, i + 1,
              IF key = <<>> THEN cm
              ELSE IF at = {} THEN Append(cm, <<key, <<nodes[i]>> >>)
              ELSE LET j == CHOOSE j \in at : TRUE
                   IN [cm EXCEPT ![j] = <<key, Append(cm[j][2], nodes[i])>>])

\* mutant: every transfer counts one floor
FloorDistOne(n1, n2) == 1

\* mutant: the floors are counted from the first node of the pair upwards
FloorDistUpward(n1, n2) ==
    IF n1.floorId < n2.floorId THEN n2.floorId - n1.floorId ELSE 1

\* part_000:271-273, AppConfig.FLOORS.find
FloorDist(n1, n2) ==
    IF n1.floorId \in FLOORS /\ n2.floorId \in FLOORS
    THEN Abs(n1.floorId - n2.floorId) ELSE 1

\* part_000:275-277
TransferType(n1, n2) ==
    IF n1.type = "elevator" /\ n2.type = "elevator" THEN "elevator"
    ELSE IF n1.type = "stairs" /\ n2.type = "stairs" THEN "stairs"
    ELSE "transfer"

\* part_000:279-284
TransferEdge(n1, n2) ==
    [from |-> n1.id, to |-> n2.id,
     dist |-> FloorDist(n1, n2) * TransferUnit,
     type |-> TransferType(n1, n2)]

\* mutant: a chain 1-2, 2-3, ... instead of every pair
RECURSIVE PairsChain(_, _, _)
PairsChain(n, i, j) ==
    IF i >= n THEN <<>> ELSE <<  <<i, i + 1>> >> \o PairsChain(n, i + 1, i + 2)

\* the pairs (i, j), i < j, in the order of the two nested loops
RECURSIVE PairsFrom(_, _, _)
PairsFrom(n, i, j) ==
    IF i >= n THEN <<>>
    ELSE IF j > n THEN PairsFrom(n, i + 1, i + 2)
    ELSE <<  <<i, j>> >> \o PairsFrom(n, i, j + 1)

\* the transfer edges of one connectionMap entry (part_000:261-287)
GroupEdges(nodes) ==
    IF Len(nodes) > 1
    THEN LET ps == PairsFrom(Len(nodes), 1, 2)
         IN [k \in DOMAIN ps |-> TransferEdge(nodes[ps[k][1]], nodes[ps[k][2]])]
    ELSE <<>>

RECURSIVE AllTransferEdges(_, _)
AllTransferEdges(cm, i) ==
    IF i > Len(cm) THEN <<>>
    ELSE GroupEdges(cm[i][2]) \o AllTransferEdges(cm, i + 1)

\* mutant: the entry does not carry the edge type
AdjEntryNoType(to, e) == [to |-> to, dist |-> e.dist, type |-> Undefined]

\* one adjacency entry (part_000:297-298)
AdjEntry(to, e) == [to |-> to, dist |-> e.dist, type |-> Prop(e, "type")]

\* globalEdges.forEach of part_000:293-299
RECURSIVE BuildAdj(_, _, _)
BuildAdj(edges, i, a) ==
    IF i > Len(edges) THEN a
    ELSE LET e  == edges[i]
             a0 == a @@ [k \in {e.from, e.to} |-> <<>>]
             a1 == [a0 EXCEPT ![e.from] = Append(@, AdjEntry(e.to, e))]
             a2 == [a1 EXCEPT ![e.to] = Append(@, AdjEntry(e.from, e))]
         IN BuildAdj(edges, i + 1, a2)

\* buildGlobalGraph: the new globalEdges and adj
BuildGlobalGraph(nodes, edges) ==
    LET cm == ConnectionMap(nodes, 1, <<>>)
        ge == edges \o AllTransferEdges(cm, 1)
        a0 == [k \in {nodes[i].id : i \in DOMAIN nodes} |-> <<>>]
    IN [globalEdges |-> ge, adj |-> BuildAdj(ge, 1, a0)]

-----------------------------------------------------------------------------
(* updateFloorLayout; scale, opacity and coordinates in tenths *)

IntermediateScale == 6
IntermediateOpacity == 3

\* img.height when the image has one, else 1000 (part_000:350, 512)
BaseHeight(f) == IF Images[f].height # 0 THEN Images[f].height ELSE FallbackHeight

\* mutant: the two floors the path spans count as intermediate too
IntermediatesInclusive(pathNodes, nodes, im) ==
    IF Len(pathNodes) > 0
       /\ pathNodes[1] \in DOMAIN im /\ pathNodes[Len(pathNodes)] \in DOMAIN im
    THEN LET sf == nodes[im[pathNodes[1]]].floorId
             ef == nodes[im[pathNodes[Len(pathNodes)]]].floorId
             minF == IF sf < ef THEN sf ELSE ef
             maxF == IF sf < ef THEN ef ELSE sf
         IN IF sf # ef THEN {f \in FLOORS : f >= minF /\ f <= maxF} ELSE {}
    ELSE {}

\* the floors strictly between the floors of the first and last path node
Intermediates(pathNodes, nodes, im) ==
    IF Len(pathNodes) > 0
       /\ pathNodes[1] \in DOMAIN im /\ pathNodes[Len(pathNodes)] \in DOMAIN im
    THEN LET sf == nodes[im[pathNodes[1]]].floorId
             ef == nodes[im[pathNodes[Len(pathNodes)]]].floorId
             minF == IF sf < ef THEN sf ELSE ef
             maxF == IF sf < ef THEN ef ELSE sf
         IN IF sf # ef THEN {f \in FLOORS : f > minF /\ f < maxF} ELSE {}
    ELSE {}

\* sortedFloors.forEach of part_000:347-379, from floor f downwards
RECURSIVE StackFloors(_, _, _, _)
StackFloors(f, currentY, inter, fv) ==
    IF f < 1 THEN fv
    ELSE LET scale == IF f \in inter THEN IntermediateScale ELSE Scale
             opacity == IF f \in inter THEN IntermediateOpacity ELSE Scale
             gap == IF f \in inter THEN FLOOR_GAP ELSE FLOOR_GAP * Scale
         IN StackFloors(f - 1, currentY + BaseHeight(f) * scale + gap, inter,
                [fv EXCEPT ![f] = [scale |-> scale, opacity |-> opacity, y |-> currentY]])

FloorVisuals(pathNodes, nodes, im) ==
    StackFloors(NumFloors, 0, Intermediates(pathNodes, nodes, im),
                [f \in FLOORS |-> [scale |-> Scale, opacity |-> Scale, y |-> 0]])

\* mutant: only the y of a node follows the layout
PlaceNodeYOnly(node, fv) ==
    IF node.floorId \in DOMAIN fv
    THEN [node EXCEPT !.y = node.localY * fv[node.floorId].scale + fv[node.floorId].y]
    ELSE node

\* mutant: x is scaled from the x the node has, not from baseX
PlaceNodeIncremental(node, fv) ==
    IF node.floorId \in DOMAIN fv
    THEN [node EXCEPT !.y = node.localY * fv[node.floorId].scale + fv[node.floorId].y,
                      !.x = (node.x * fv[node.floorId].scale) \div Scale]
    ELSE node

\* part_000:384-393
PlaceNode(node, fv) ==
    IF node.floorId \in DOMAIN fv
    THEN [node EXCEPT !.y = node.localY * fv[node.floorId].scale + fv[node.floorId].y,
                      !.x = (node.baseX * fv[node.floorId].scale) \div Scale]
    ELSE node

UpdateFloorLayout(pathNodes, nodes, im) ==
    LET fv == FloorVisuals(pathNodes, nodes, im)
    IN [floorVisuals |-> fv,
        globalNodes |-> [i \in DOMAIN nodes |-> PlaceNode(nodes[i], fv)]]

-----------------------------------------------------------------------------
(* JavaScript numbers of the view.  A number is a fraction n/d in lowest   *)
(* terms with d > 0; d = 0 holds the three special values Infinity (1/0),  *)
(* -Infinity (-1/0) and NaN (0/0).  Arithmetic is exact (no rounding of    *)
(* the binary floating point), and -0 is 0.                                 *)

Sign(n) == IF n > 0 THEN 1 ELSE IF n < 0 THEN -1 ELSE 0

RECURSIVE GCD(_, _)
GCD(a, b) == IF b = 0 THEN a ELSE GCD(b, a % b)

Norm(n, d) ==
    IF d = 0 THEN [n |-> Sign(n), d |-> 0]
    ELSE LET g == GCD(Abs(n), Abs(d))
         IN [n |-> (Sign(d) * n) \div g, d |-> Abs(d) \div g]

Q(n, d) == Norm(n, d)
R(n) == [n |-> n, d |-> 1]
Infinity == [n |-> 1, d |-> 0]
NegInfinity == [n |-> -1, d |-> 0]
NaN == [n |-> 0, d |-> 0]

IsFinite(a) == a.d # 0
IsNaN(a) == a.d = 0 /\ a.n = 0

RNeg(a) == [n |-> -a.n, d |-> a.d]

RAdd(a, b) ==
    IF a.d = 0 /\ b.d = 0
    THEN (IF a.n = b.n THEN a ELSE NaN)
    ELSE Norm(a.n * b.d + b.n * a.d, a.d * b.d)

RSub(a, b) == RAdd(a, RNeg(b))
RMul(a, b) == Norm(a.n * b.n, a.d * b.d)
RDiv(a, b) == RMul(a, Norm(b.d, b.n))

\* a < b (false when either is NaN)
RLess(a, b) ==
    IF IsNaN(a) \/ IsNaN(b) THEN FALSE
    ELSE IF a.d = 0 /\ b.d = 0 THEN a.n < b.n
    ELSE a.n * b.d < b.n * a.d

\* Math.min, Math.max
RMin(a, b) == IF IsNaN(a) \/ IsNaN(b) THEN NaN ELSE IF RLess(b, a) THEN b ELSE a
RMax(a, b) == IF IsNaN(a) \/ IsNaN(b) THEN NaN ELSE IF RLess(a, b) THEN b ELSE a

\* the % of JavaScript on integers: the result has the sign of the dividend
JSMod(a, m) == Sign(a) * (Abs(a) % m)

\* Angles are whole degrees.  Math.atan2 is taken to the nearest degree (it
\* is exact on the axes and the diagonals), Math.sin and Math.cos to four
\* decimals (exact at the multiples of 90 degrees).
TrigScale == 10000

\* TanBound[k]: the least t with t / TrigScale > tan(k - 1/2 degrees), k in 1..45
TanBound ==
    << 88, 262, 437, 612, 788, 963, 1140, 1317, 1495, 1674, 1854, 2035,
       2217, 2401, 2587, 2774, 2963, 3153, 3346, 3542, 3739, 3940, 4143,
       4349, 4558, 4770, 4986, 5206, 5430, 5658, 5891, 6129, 6371, 6619,
       6873, 7133, 7400, 7674, 7955, 8244, 8541, 8848, 9164, 9490, 9827 >>

\* the angle in 0..45 of a direction (q, p) with 0 <= p <= q, q > 0
Octant(p, q) == Cardinality({k \in 1..45 : p * TrigScale >= TanBound[k] * q})

\* Math.atan2(dy, dx) * (180 / Math.PI)
Atan2Deg(dy, dx) ==
    IF dy = 0 /\ dx = 0 THEN 0
    ELSE LET p == Abs(dy)
             q == Abs(dx)
             a == IF p <= q THEN Octant(p, q) ELSE 90 - Octant(q, p)
         IN IF dx >= 0 THEN Sign(dy) * a
            ELSE IF dy >= 0 THEN 180 - a ELSE a - 180

\* SinTable[k + 1]: sin(k degrees) * TrigScale, k in 0..90
SinTable ==
    << 0, 175, 349, 523, 698, 872, 1045, 1219, 1392, 1564, 1736, 1908,
       2079, 2250, 2419, 2588, 2756, 2924, 3090, 3256, 3420, 3584, 3746,
       3907, 4067, 4226, 4384, 4540, 4695, 4848, 5000, 5150, 5299, 5446,
       5592, 5736, 5878, 6018, 6157, 6293, 6428, 6561, 6691, 6820, 6947,
       7071, 7193, 7314, 7431, 7547, 7660, 7771, 7880, 7986, 8090, 8192,
       8290, 8387, 8480, 8572, 8660, 8746, 8829, 8910, 8988, 9063, 9135,
       9205, 9272, 9336, 9397, 9455, 9511, 9563, 9613, 9659, 9703, 9744,
       9781, 9816, 9848, 9877, 9903, 9925, 9945, 9962, 9976, 9986, 9994,
       9998, 10000 >>

\* Math.sin and Math.cos of a whole number of degrees
SinDeg(deg) ==
    LET a == ((deg % 360) + 360) % 360
    IN Q(IF a <= 90 THEN SinTable[a + 1]
         ELSE IF a <= 180 THEN SinTable[180 - a + 1]
         ELSE IF a <= 270 THEN -SinTable[a - 180 + 1]
         ELSE -SinTable[360 - a + 1], TrigScale)

CosDeg(deg) == SinDeg(deg + 90)

-----------------------------------------------------------------------------
(* The view: this.transform, canvas.__zoom, this.rotation and the d3       *)
(* transitions of the canvas.  A view operation is an operator from the    *)
(* view record to the view record, so that a handler that makes several    *)
(* calls composes them.                                                     *)
(*                                                                         *)
(* d3 (zoom, transition, timer) is a library outside the repository; it is *)
(* modelled from its documented behaviour.  selection.transition() only    *)
(* schedules; the timer flush starts the scheduled transitions in creation *)
(* order, and a starting transition interrupts the one that runs.          *)
(* zoom.transform takes the given transform as it is, zoom.scaleBy clamps  *)
(* the scale to scaleExtent and keeps the centre of the canvas fixed.  A   *)
(* tween is sampled at its first tick, taken at t = 0, and at its end,     *)
(* t = 1, where the zoom tween emits exactly its target; the frames in     *)
(* between are not part of the state.                                      *)

\* canvas.width, canvas.height as set by resize()
CanvasWidth == 800
CanvasHeight == 600

\* d3.zoom().scaleExtent([0.1, 5])
ScaleExtent == <<Q(1, 10), R(5)>>

\* d3.zoomIdentity.translate(tX, tY).scale(k)
ZoomTransform(tX, tY, k) == [k |-> k, x |-> tX, y |-> tY]

ZoomIdentity == ZoomTransform(R(0), R(0), R(1))

\* a world coordinate, held in tenths, as a number
World(c) == Q(c, Scale)

\* the tweens of a transition
NoTween == [kind |-> "none"]
ZoomTo(t) == [kind |-> "transform", to |-> t]
ScaleBy(k) == [kind |-> "scaleBy", k |-> k]
RotateTo(from, to) == [kind |-> "rotate", from |-> from, to |-> to]

NoTransition == [zoom |-> NoTween, rotate |-> NoTween]

None == [kind |-> "none"]

\* d3.select(this.canvas).transition() with its tweens; targets keeps the
\* transform and the rotate tween of the most recent calls that gave one
Schedule(v, zoom, rotate) ==
    [v EXCEPT
        !.scheduled = Append(@, [zoom |-> zoom, rotate |-> rotate]),
        !.targets = [transform |-> IF zoom.kind = "transform" THEN zoom.to
                                   ELSE IF zoom.kind = "scaleBy" THEN None
                                   ELSE @.transform,
                     rotation |-> IF rotate.kind = "rotate" THEN rotate
                                  ELSE @.rotation]]

\* the record of a call: its arguments, whether it created a transition and
\* whether a transition was running when it was made
Called(r, op, args, v) ==
    [r EXCEPT !.call = [op |-> op, args |-> args,
                        scheduled |-> Len(r.scheduled) > Len(v.scheduled),
                        animating |-> v.running # NoTransition]]

NoViewCall == [op |-> "none"]

\* the view a MapEngine is constructed with (part_000:25-30)
NewView ==
    [transform |-> ZoomIdentity, zoomState |-> ZoomIdentity, rotation |-> 0,
     enableAutoRotation |-> TRUE, isDragging |-> FALSE,
     running |-> NoTransition, scheduled |-> <<>>,
     targets |-> [transform |-> None, rotation |-> None], call |-> NoViewCall]

\* mutant: the screen delta is turned by the rotation, not against it
ApplyRotatedPanForward(v, dx, dy) ==
    LET cos == CosDeg(v.rotation)
        sin == SinDeg(v.rotation)
        dtx == RSub(RMul(R(dx), cos), RMul(R(dy), sin))
        dty == RAdd(RMul(R(dx), sin), RMul(R(dy), cos))
        newTransform == ZoomTransform(RAdd(v.transform.x, dtx),
                                      RAdd(v.transform.y, dty), v.transform.k)
    IN [v EXCEPT !.transform = newTransform, !.zoomState = newTransform,
                 !.targets.transform = None,
                 !.call = [op |-> "applyRotatedPan", args |-> <<dx, dy>>,
                           found |-> v.transform]]

\* applyRotatedPan(dx, dy)
ApplyRotatedPan(v, dx, dy) ==
    LET cos == CosDeg(v.rotation)
        sin == SinDeg(v.rotation)
        dtx == RAdd(RMul(R(dx), cos), RMul(R(dy), sin))
        dty == RAdd(RMul(R(-dx), sin), RMul(R(dy), cos))
        newTransform == ZoomTransform(RAdd(v.transform.x, dtx),
                                      RAdd(v.transform.y, dty), v.transform.k)
    IN [v EXCEPT !.transform = newTransform, !.zoomState = newTransform,
                 !.targets.transform = None,
                 !.call = [op |-> "applyRotatedPan", args |-> <<dx, dy>>,
                           found |-> v.transform]]

\* switchFloor(floorId): centre the floor at zoom 0.5
FallbackWidth == 2000

SwitchFloor(v, floorId, fo) ==
    LET height == BaseHeight(floorId)
        width == IF Images[floorId].width # 0 THEN Images[floorId].width
                 ELSE FallbackWidth
        centerX == Q(width, 2)
        centerY == RAdd(R(fo[floorId]), Q(height, 2))
        k == Q(5, 10)
        tX == RSub(Q(CanvasWidth, 2), RMul(centerX, k))
        tY == RSub(Q(CanvasHeight, 2), RMul(centerY, k))
        t == ZoomTransform(tX, tY, k)
    IN Called(Schedule([v EXCEPT !.transform = t], ZoomTo(t), NoTween),
              "switchFloor", floorId, v)

\* zoomIn(), zoomOut()
ZoomIn(v) == Called(Schedule(v, ScaleBy(Q(12, 10)), NoTween), "zoomIn", <<>>, v)
ZoomOut(v) == Called(Schedule(v, ScaleBy(Q(8, 10)), NoTween), "zoomOut", <<>>, v)

\* the bounding box of the path nodes that resolve (part_000:624-633)
RECURSIVE PathBounds(_, _, _, _, _)
PathBounds(pathNodes, i, nodes, im, b) ==
    IF i > Len(pathNodes) THEN b
    ELSE PathBounds(pathNodes, i + 1, nodes, im,
            IF pathNodes[i] \in DOMAIN im
            THEN LET n == nodes[im[pathNodes[i]]]
                 IN [minX |-> RMin(b.minX, World(n.x)),
                     minY |-> RMin(b.minY, World(n.y)),
                     maxX |-> RMax(b.maxX, World(n.x)),
                     maxY |-> RMax(b.maxY, World(n.y))]
            ELSE b)

NoBounds ==
    [minX |-> Infinity, minY |-> Infinity, maxX |-> NegInfinity, maxY |-> NegInfinity]

\* mutant: the turn is not folded into [-180, 180]
ShortestDeltaUnfolded(target, start) == JSMod(target - start, 360)

\* the shortest signed turn from start to target (part_000:687-689, 705-707)
ShortestDelta(target, start) ==
    LET d0 == JSMod(target - start, 360)
        d1 == IF d0 > 180 THEN d0 - 360 ELSE d0
    IN IF d1 < -180 THEN d1 + 360 ELSE d1

\* the transform fitToPath aims at (part_000:624-655)
FitToPathClamped(pathNodes, nodes, im, maxScale) ==
    LET b == PathBounds(pathNodes, 1, nodes, im, NoBounds)
        padding == R(100)
        width == RAdd(RSub(b.maxX, b.minX), RMul(padding, R(2)))
        height == RAdd(RSub(b.maxY, b.minY), RMul(padding, R(2)))
        cx == RDiv(RAdd(b.minX, b.maxX), R(2))
        cy == RDiv(RAdd(b.minY, b.maxY), R(2))
        scaleX == RDiv(R(CanvasWidth), width)
        scaleY == RDiv(R(CanvasHeight), height)
        scale == RMax(RMin(RMin(scaleX, scaleY), maxScale), Q(2, 10))
        tX == RSub(Q(CanvasWidth, 2), RMul(cx, scale))
        tY == RSub(Q(CanvasHeight, 2), RMul(cy, scale))
    IN ZoomTransform(tX, tY, scale)

\* mutant: the path fit shares the upper clamp of fitBounds
FitToPathTransformWide(pathNodes, nodes, im) ==
    FitToPathClamped(pathNodes, nodes, im, R(3))

FitToPathTransform(pathNodes, nodes, im) ==
    FitToPathClamped(pathNodes, nodes, im, R(2))

\* mutant: the heading offset is left out
FitToPathRotationNoOffset(v, pathNodes, nodes, im) ==
    IF v.enableAutoRotation /\ Len(pathNodes) >= 2
    THEN IF pathNodes[1] \in DOMAIN im /\ pathNodes[2] \in DOMAIN im
         THEN LET n1 == nodes[im[pathNodes[1]]]
                  n2 == nodes[im[pathNodes[2]]]
              IN -90 - Atan2Deg(n2.y - n1.y, n2.x - n1.x)
         ELSE v.rotation
    ELSE IF ~v.enableAutoRotation THEN 0 ELSE v.rotation

\* the rotation fitToPath aims at (part_000:657-675)
FitToPathRotation(v, pathNodes, nodes, im) ==
    IF v.enableAutoRotation /\ Len(pathNodes) >= 2
    THEN IF pathNodes[1] \in DOMAIN im /\ pathNodes[2] \in DOMAIN im
         THEN LET n1 == nodes[im[pathNodes[1]]]
                  n2 == nodes[im[pathNodes[2]]]
              IN -90 - Atan2Deg(n2.y - n1.y, n2.x - n1.x) + 15
         ELSE v.rotation
    ELSE IF ~v.enableAutoRotation THEN 0 ELSE v.rotation

\* fitToPath(pathNodes)
FitToPath(v, pathNodes, nodes, im) ==
    IF Len(pathNodes) = 0 THEN Called(v, "fitToPath", pathNodes, v)
    ELSE LET targetTransform == FitToPathTransform(pathNodes, nodes, im)
             targetRotation == FitToPathRotation(v, pathNodes, nodes, im)
             startRotation == v.rotation
             delta == ShortestDelta(targetRotation, startRotation)
         IN Called(Schedule(v, ZoomTo(targetTransform),
                            RotateTo(startRotation, startRotation + delta)),
                   "fitToPath", pathNodes, v)

\* setRotation(angle)
SetRotation(v, angle) ==
    LET startAngle == v.rotation
        delta == ShortestDelta(angle, startAngle)
    IN Called(Schedule(v, NoTween, RotateTo(startAngle, startAngle + delta)),
              "setRotation", angle, v)

\* panToNode(node)
PanToNode(v, node) ==
    LET targetScale == IF RLess(v.transform.k, Q(5, 10)) THEN Q(8, 10)
                       ELSE v.transform.k
        tX == RSub(Q(CanvasWidth, 2), RMul(World(node.x), targetScale))
        tY == RSub(Q(CanvasHeight, 2), RMul(World(node.y), targetScale))
        t == ZoomTransform(tX, tY, targetScale)
    IN Called(Schedule([v EXCEPT !.transform = t], ZoomTo(t), NoTween),
              "panToNode", node.id, v)

\* focusNode(nodeOrId, zoomLevel) with an id
FocusNode(v, id, zoomLevel, nodes, im) ==
    IF id \notin DOMAIN im THEN Called(v, "focusNode", <<id, zoomLevel>>, v)
    ELSE LET node == nodes[im[id]]
             k == zoomLevel
             x == RSub(Q(CanvasWidth, 2), RMul(World(node.x), k))
             y == RSub(Q(CanvasHeight, 2), RMul(World(node.y), k))
         IN Called(Schedule(v, ZoomTo(ZoomTransform(x, y, k)), NoTween),
                   "focusNode", <<id, zoomLevel>>, v)

\* typeof n.x === 'number' && typeof n.y === 'number'
HasPosition(n) == "x" \in DOMAIN n /\ "y" \in DOMAIN n

\* the bounding box of the nodes that carry a position (part_000:1570-1580)
RECURSIVE NodeBounds(_, _, _)
NodeBounds(ns, i, b) ==
    IF i > Len(ns) THEN b
    ELSE NodeBounds(ns, i + 1,
            IF HasPosition(ns[i])
            THEN LET x == World(ns[i].x)
                     y == World(ns[i].y)
                 IN [minX |-> IF RLess(x, b.minX) THEN x ELSE b.minX,
                     maxX |-> IF RLess(b.maxX, x) THEN x ELSE b.maxX,
                     minY |-> IF RLess(y, b.minY) THEN y ELSE b.minY,
                     maxY |-> IF RLess(b.maxY, y) THEN y ELSE b.maxY]
            ELSE b)

\* the transform fitBounds aims at (part_000:1585-1611)
FitBoundsTransform(b) ==
    LET padding == R(100)
        w == RAdd(RSub(b.maxX, b.minX), RMul(padding, R(2)))
        h == RAdd(RSub(b.maxY, b.minY), RMul(padding, R(2)))
        targetWidth == IF ~RLess(R(0), w) /\ ~IsNaN(w) THEN R(500) ELSE w
        targetHeight == IF ~RLess(R(0), h) /\ ~IsNaN(h) THEN R(500) ELSE h
        centerX == RDiv(RAdd(b.minX, b.maxX), R(2))
        centerY == RDiv(RAdd(b.minY, b.maxY), R(2))
        scaleX == RDiv(R(CanvasWidth), targetWidth)
        scaleY == RDiv(R(CanvasHeight), targetHeight)
        k0 == RMin(scaleX, scaleY)
        k1 == IF ~IsFinite(k0) THEN R(1) ELSE k0
        k == RMin(RMax(k1, Q(2, 10)), R(3))
        tX == RSub(Q(CanvasWidth, 2), RMul(centerX, k))
        tY == RSub(Q(CanvasHeight, 2), RMul(centerY, k))
    IN ZoomTransform(tX, tY, k)

\* fitBounds(nodes)
FitBounds(v, ns) ==
    LET b == NodeBounds(ns, 1, NoBounds)
        t == FitBoundsTransform(b)
    IN Called(IF Len(ns) = 0 THEN v
              ELSE IF b.minX = Infinity \/ b.maxX = NegInfinity THEN v
              ELSE IF ~IsFinite(t.x) \/ ~IsFinite(t.y) THEN v
              ELSE Schedule(v, ZoomTo(t), NoTween),
              "fitBounds", ns, v)

\* the transform a zoom tween ends at, read when the transition starts:
\* zoom.transform gives the transform itself, zoom.scaleBy scales __zoom (z)
\* within the scale extent about the centre of the canvas
ZoomTarget(tween, z) ==
    IF tween.kind = "transform" THEN tween.to
    ELSE LET k1 == RMax(ScaleExtent[1],
                        RMin(ScaleExtent[2], RMul(z.k, tween.k)))
             p0x == Q(CanvasWidth, 2)
             p0y == Q(CanvasHeight, 2)
             p1x == RDiv(RSub(p0x, z.x), z.k)
             p1y == RDiv(RSub(p0y, z.y), z.k)
         IN ZoomTransform(RSub(p0x, RMul(p1x, k1)), RSub(p0y, RMul(p1y, k1)), k1)

\* one scheduled transition starts: it interrupts the running one, creates
\* its tweens and ticks them at t = 0 (the zoom listener of part_000:43-46
\* copies the emitted transform into this.transform)
StartTransition(v, tr) ==
    [v EXCEPT
        !.running = [zoom |-> IF tr.zoom.kind = "none" THEN NoTween
                              ELSE ZoomTo(ZoomTarget(tr.zoom, v.zoomState)),
                     rotate |-> tr.rotate],
        !.transform = IF tr.zoom.kind = "none" THEN @ ELSE v.zoomState,
        !.rotation = IF tr.rotate.kind = "none" THEN @ ELSE tr.rotate.from]

\* the timer flush: every scheduled transition starts, in creation order
RECURSIVE StartAll(_, _, _)
StartAll(v, trs, i) ==
    IF i > Len(trs) THEN [v EXCEPT !.scheduled = <<>>]
    ELSE StartAll(StartTransition(v, trs[i]), trs, i + 1)

\* the last tick of the running transition
EndTransition(v) ==
    [v EXCEPT
        !.running = NoTransition,
        !.zoomState = IF v.running.zoom.kind = "none" THEN @ ELSE v.running.zoom.to,
        !.transform = IF v.running.zoom.kind = "none" THEN @ ELSE v.running.zoom.to,
        !.rotation = IF v.running.rotate.kind = "none" THEN @ ELSE v.running.rotate.to]

\* the view once the timer has started the scheduled transitions and the
\* last of them has run to its end
Settled(v) ==
    IF v.scheduled = <<>> THEN v ELSE EndTransition(StartAll(v, v.scheduled, 1))

\* the view as a record, and the next view
View ==
    [transform |-> transform, zoomState |-> zoomState, rotation |-> rotation,
     enableAutoRotation |-> enableAutoRotation, isDragging |-> isDragging,
     running |-> running, scheduled |-> scheduled, targets |-> viewTargets,
     call |-> viewCall]

SetView(v) ==
    \E w \in {v} :
        /\ transform' = w.transform
        /\ zoomState' = w.zoomState
        /\ rotation' = w.rotation
        /\ enableAutoRotation' = w.enableAutoRotation
        /\ isDragging' = w.isDragging
        /\ running' = w.running
        /\ scheduled' = w.scheduled
        /\ viewTargets' = w.targets
        /\ viewCall' = w.call

InitView(v) ==
    /\ transform = v.transform
    /\ zoomState = v.zoomState
    /\ rotation = v.rotation
    /\ enableAutoRotation = v.enableAutoRotation
    /\ isDragging = v.isDragging
    /\ running = v.running
    /\ scheduled = v.scheduled
    /\ viewTargets = v.targets
    /\ viewCall = v.call

\* a handler is taken while at most MaxScheduled transitions wait for the
\* timer and the rotation is within MaxRotation degrees
ViewBounded ==
    Len(scheduled) <= MaxScheduled /\ -MaxRotation <= rotation /\ rotation <= MaxRotation

-----------------------------------------------------------------------------
(* loadAllData as a process: the synchronous prefix, the image barrier,    *)
(* one callback per floor file in any order, and the code after            *)
(* Promise.all(jsonPromises).                                              *)

NoCall == [made |-> FALSE]

\* what pop() returns when the heap is empty
Null == [null |-> TRUE]

\* new MinHeap(), nothing pushed or popped yet
NewHeap == [heap |-> <<>>, pushes |-> 0, returned |-> 0, min |-> Null]

\* the scanner before the first startScanner: overlay hidden, no video
\* stream, no startScanner awaiting, no animation frame requested
ScannerOff ==
    [overlay |-> FALSE, isScanning |-> FALSE, isScanningLocked |-> FALSE,
     srcObject |-> 0, awaits |-> <<>>, frames |-> 0, streams |-> 0, live |-> {},
     started |-> 0, lastTick |-> "none", reported |-> 0]

\* the value of a selector nothing was selected in
NoValue == <<>>

EmptyMap == [k \in {} |-> 0]

Init ==
    /\ floorJson \in [FLOORS -> FloorFiles]
    /\ pc = "constructed"
    /\ pending = {}
    /\ floorOffsets = EmptyMap
    /\ floorCropX = EmptyMap
    /\ globalNodes = <<>>
    /\ globalEdges = <<>>
    /\ idMap = EmptyMap
    /\ adj = EmptyMap
    /\ floorVisuals = EmptyMap
    /\ layoutPath = <<>>
    /\ accessibilityMode = FALSE
    /\ path = <<>>
    /\ startSelect = NoValue
    /\ endSelect = NoValue
    /\ call = NoCall
    /\ InitView(NewView)
    /\ inputs = 0
    /\ scanner = ScannerOff
    /\ routeList = <<>>
    /\ minHeap = NewHeap

\* part_000:452-486
LoadAllData ==
    /\ pc = "constructed"
    /\ pc' = "images"
    /\ globalNodes' = <<>>
    /\ globalEdges' = <<>>
    /\ idMap' = EmptyMap
    /\ floorOffsets' = EmptyMap
    /\ UNCHANGED <<floorJson, minHeap, routeList, scanner, layoutPath, pending, floorCropX, adj, floorVisuals,
                   accessibilityMode, path, startSelect, endSelect, call,
                   viewVars, inputs>>

\* floorOffsets of part_000:501-514, from floor f downwards
RECURSIVE StaticOffsets(_, _, _)
StaticOffsets(f, currentY, fo) ==
    IF f < 1 THEN fo
    ELSE StaticOffsets(f - 1, currentY + BaseHeight(f) + FLOOR_GAP,
                       [fo EXCEPT ![f] = currentY])

\* part_000:506-510, in tenths
CropX(f) ==
    IF Images[f].width > TARGET_WIDTH
    THEN ((Images[f].width - TARGET_WIDTH) * Scale) \div 2 ELSE 0

\* part_000:488-520: the images are in, the JSON fetches are issued
ImagesLoaded ==
    /\ pc = "images"
    /\ pc' = "json"
    /\ floorOffsets' = StaticOffsets(NumFloors, 0, [f \in FLOORS |-> 0])
    /\ floorCropX' = [f \in FLOORS |-> CropX(f)]
    /\ pending' = FLOORS
    /\ UNCHANGED <<floorJson, minHeap, routeList, scanner, layoutPath, globalNodes, globalEdges, idMap, adj, floorVisuals,
                   accessibilityMode, path, startSelect, endSelect, call,
                   viewVars, inputs>>

\* part_000:520-566: the callback of floor conf
JsonLoaded(conf) ==
    /\ pc = "json"
    /\ conf \in pending
    /\ LET st == LoadFloor(conf, floorJson[conf],
                    [globalNodes |-> globalNodes, globalEdges |-> globalEdges,
                     idMap |-> idMap])
       IN /\ globalNodes' = st.globalNodes
          /\ globalEdges' = st.globalEdges
          /\ idMap' = st.idMap
    /\ pending' = pending \ {conf}
    /\ UNCHANGED <<floorJson, minHeap, routeList, scanner, layoutPath, pc, floorOffsets, floorCropX, adj, floorVisuals,
                   accessibilityMode, path, startSelect, endSelect, call,
                   viewVars, inputs>>

\* part_000:568-571
GraphReady ==
    /\ pc = "json"
    /\ pending = {}
    /\ pc' = "loaded"
    /\ LET g == BuildGlobalGraph(globalNodes, globalEdges)
           l == UpdateFloorLayout(<<>>, globalNodes, idMap)
       IN /\ globalEdges' = g.globalEdges
          /\ adj' = g.adj
          /\ floorVisuals' = l.floorVisuals
          /\ globalNodes' = l.globalNodes
          /\ layoutPath' = <<>>
    /\ UNCHANGED <<floorJson, minHeap, routeList, scanner, pending, floorOffsets, floorCropX, idMap,
                   accessibilityMode, path, startSelect, endSelect, call,
                   viewVars, inputs>>

-----------------------------------------------------------------------------
(* MinHeap (array indices are 1-based here: parent of n is n \div 2) *)

Swap(h, i, j) == [h EXCEPT ![i] = h[j], ![j] = h[i]]

RECURSIVE BubbleUp(_, _)
BubbleUp(h, n) ==
    IF n > 1
    THEN LET parent == n \div 2
         IN IF h[n].dist >= h[parent].dist THEN h
            ELSE BubbleUp(Swap(h, n, parent), parent)
    ELSE h

\* mutant: only the left child is looked at
RECURSIVE SinkDownLeftOnly(_, _)
SinkDownLeftOnly(h, n) ==
    LET left == 2 * n
    IN IF left <= Len(h) /\ h[left].dist < h[n].dist
       THEN SinkDownLeftOnly(Swap(h, n, left), left) ELSE h

RECURSIVE SinkDown(_, _)
SinkDown(h, n) ==
    LET length == Len(h)
        left == 2 * n
        right == 2 * n + 1
        s1 == IF left <= length /\ h[left].dist < h[n].dist THEN left ELSE 0
        s2 == IF right <= length
                 /\ h[right].dist < (IF s1 # 0 THEN h[s1].dist ELSE h[n].dist)
              THEN right ELSE s1
    IN IF s2 = 0 THEN h ELSE SinkDown(Swap(h, n, s2), s2)

HeapPush(h, val) == BubbleUp(Append(h, val), Len(h) + 1)

\* the heap left by pop(); the popped entry is h[1]
HeapPop(h) ==
    LET end == h[Len(h)]
        rest == SubSeq(h, 1, Len(h) - 1)
    IN IF Len(rest) > 0 THEN SinkDown([rest EXCEPT ![1] = end], 1) ELSE rest

-----------------------------------------------------------------------------
(* calculatePath *)

NEAREST_MALE == <<0, "NEAREST_MALE">>
NEAREST_FEMALE == <<0, "NEAREST_FEMALE">>
NEAREST_VENDING == <<0, "NEAREST_VENDING">>

MaleKeywords == {<<"m", "s">>, <<"m", "k">>}
FemaleKeywords == {<<"f", "s">>, <<"f", "k">>}

\* String.prototype.includes
Includes(name, k) ==
    \E i \in 1..(Len(name) - Len(k) + 1) : SubSeq(name, i, i + Len(k) - 1) = k

\* part_000:1415-1443
TargetIds(endId, nodes, im) ==
    IF endId = NEAREST_VENDING
    THEN {nodes[i].id : i \in {j \in DOMAIN nodes : nodes[j].type = "vending"}}
    ELSE IF endId \in {NEAREST_MALE, NEAREST_FEMALE}
    THEN LET keyword == IF endId = NEAREST_MALE THEN MaleKeywords ELSE FemaleKeywords
         IN {nodes[i].id : i \in {j \in DOMAIN nodes :
                nodes[j].type = "toilet"
                /\ \E k \in keyword : nodes[j].name # <<>> /\ Includes(nodes[j].name, k)}}
    ELSE IF endId \in DOMAIN im THEN {nodes[im[endId]].id} ELSE {}

\* edge.barrierFreeBlocked of an adjacency entry (part_000:1494)
BarrierFreeBlocked(edge) ==
    IF "barrierFreeBlocked" \in DOMAIN edge THEN edge.barrierFreeBlocked ELSE FALSE

ElevatorDivisor == 10

\* mutant: the stairs penalty is missing
EdgeWeightNoPenalty(edge, mode) ==
    IF mode
    THEN IF edge.type = "elevator" THEN (edge.dist * Scale) \div ElevatorDivisor
         ELSE edge.dist * Scale
    ELSE IF edge.type = "elevator" THEN (edge.dist + ElevatorPenalty) * Scale
         ELSE edge.dist * Scale

\* the effective weight of part_000:1488-1509, in tenths
EdgeWeight(edge, mode) ==
    IF mode
    THEN IF edge.type = "elevator" THEN (edge.dist * Scale) \div ElevatorDivisor
         ELSE IF edge.type = "stairs" THEN (edge.dist + StairsPenalty) * Scale
         ELSE edge.dist * Scale
    ELSE IF edge.type = "elevator" THEN (edge.dist + ElevatorPenalty) * Scale
         ELSE edge.dist * Scale

\* mutant: accessibility mode drops stairs edges instead of penalising them
EdgeSkippedStairs(edge, mode) ==
    mode /\ (BarrierFreeBlocked(edge) \/ edge.type = "stairs")

\* the edges of this.adj[minId] the loop does not skip (part_000:1494)
EdgeSkipped(edge, mode) == mode /\ BarrierFreeBlocked(edge)

\* mutant: a distance once set is never lowered
ImprovesFirstSeen(newDist, dists, to) == to \notin DOMAIN dists

\* newDist < (dists[edge.to] ?? Infinity)
Improves(newDist, dists, to) == to \notin DOMAIN dists \/ newDist < dists[to]

Put(f, k, v) == (k :> v) @@ f

\* the for loop of part_000:1487-1517 from entry i on
RECURSIVE Relax(_, _, _, _, _, _)
Relax(edges, i, minId, minDist, mode, st) ==
    IF i > Len(edges) THEN st
    ELSE LET edge == edges[i]
             newDist == minDist + EdgeWeight(edge, mode)
         IN Relax(edges, i + 1, minId, minDist, mode,
              IF EdgeSkipped(edge, mode) THEN st
              ELSE IF Improves(newDist, st.dists, edge.to)
              THEN [st EXCEPT !.dists = Put(@, edge.to, newDist),
                              !.prev = Put(@, edge.to, minId),
                              !.pq = HeapPush(@, [id |-> edge.to, dist |-> newDist])]
              ELSE st)

\* mutant: no popped entry is skipped
SkipEntryNever(min, st) == FALSE

\* the two continue tests of part_000:1477-1478: a stale entry, a visited node
SkipEntry(min, st) ==
    \/ min.id \in DOMAIN st.dists /\ min.dist > st.dists[min.id]
    \/ min.id \in st.visited

\* the while loop of part_000:1474-1519; pops counts its iterations and
\* expanded lists the ids that passed the two continue tests, in order
RECURSIVE Search(_, _, _, _)
Search(st, targetIds, a, mode) ==
    IF Len(st.pq) = 0 THEN st
    ELSE LET min == st.pq[1]
             popped == [st EXCEPT !.pq = HeapPop(@), !.pops = @ + 1]
         IN IF SkipEntry(min, st) THEN Search(popped, targetIds, a, mode)
            ELSE LET seen == [popped EXCEPT !.visited = @ \cup {min.id},
                                            !.expanded = Append(@, min.id)]
                 IN IF min.id \in targetIds
                    THEN [seen EXCEPT !.finalDestId = <<min.id>>]
                    ELSE IF min.id \in DOMAIN a
                    THEN Search(Relax(a[min.id], 1, min.id, min.dist, mode, seen),
                                targetIds, a, mode)
                    ELSE Search(seen, targetIds, a, mode)

\* mutant: the walk stops before the node that has no predecessor
RECURSIVE WalkBackDropsStart(_, _, _)
WalkBackDropsStart(prev, curr, acc) ==
    IF curr \in DOMAIN prev THEN WalkBackDropsStart(prev, prev[curr], <<curr>> \o acc)
    ELSE acc

\* part_000:1524-1528
RECURSIVE WalkBack(_, _, _)
WalkBack(prev, curr, acc) ==
    IF curr \in DOMAIN prev THEN WalkBack(prev, prev[curr], <<curr>> \o acc)
    ELSE <<curr>> \o acc

\* part_000:1460-1529: the search from sId and the path it leaves in this.path
Dijkstra(sId, targetIds, a, mode) ==
    LET st == Search([dists |-> Put(EmptyMap, sId, 0), prev |-> EmptyMap,
                      pq |-> HeapPush(<<>>, [id |-> sId, dist |-> 0]),
                      visited |-> {}, finalDestId |-> <<>>,
                      pops |-> 0, expanded |-> <<>>],
                     targetIds, a, mode)
    IN IF st.finalDestId # <<>>
       THEN [path |-> WalkBack(st.prev, st.finalDestId[1], <<>>),
             dist |-> st.dists[st.finalDestId[1]], search |-> st]
       ELSE [path |-> <<>>, dist |-> 0, search |-> st]

\* if (path.length > 0) fitToPath(path) (part_000:1536-1539, part_001:336-337)
FitFound(v, p) == IF Len(p) > 0 THEN FitToPath(v, p, globalNodes, idMap) ELSE v

\* mutant: calculatePath rebuilds the graph on every call
CacheMissingAlways(a) == TRUE

\* !this.adj || Object.keys(this.adj).length === 0 (part_000:1455)
CacheMissing(a) == DOMAIN a = {}

\* the ids of the steps updateRouteList(pathIds) shows (part_001:395-434):
\* a node without a name is left out unless it is the first or the last of
\* the path or a neighbour in the path is on another floor
RouteSteps(pathIds) ==
    LET node(i) == globalNodes[idMap[pathIds[i]]]
        isTransfer(i) ==
            \/ i > 1 /\ node(i - 1).floorId # node(i).floorId
            \/ i < Len(pathIds) /\ node(i + 1).floorId # node(i).floorId
        shown(i) == node(i).name # <<>> \/ i = 1 \/ i = Len(pathIds) \/ isTransfer(i)
        kept == SelectSeq([i \in DOMAIN pathIds |-> i], shown)
    IN [k \in DOMAIN kept |-> pathIds[kept[k]]]

\* the route list calculateRoute leaves for the path p it was returned
\* (part_001:336-347, 384-386): updateRouteList runs for a non-empty path only
RouteShown(list, p) == IF p # <<>> THEN RouteSteps(p) ELSE list

\* fitToPath(path) of a found path, n times in a row
RECURSIVE FitTimes(_, _, _)
FitTimes(v, p, n) == IF n = 0 THEN v ELSE FitTimes(FitFound(v, p), p, n - 1)

\* the body of calculatePath(startId, endId) run with accessibility flag mode
\* on the view v; more: the fits of the returned path that follow in the
\* same handler (one by calculateRoute, part_001:336-337; one more when
\* handleScanSuccess calls calculatePath again with the same arguments,
\* part_001:667)
RunCalculatePath(startId, endId, mode, v, more) ==
    LET targetIds == TargetIds(endId, globalNodes, idMap)
        rebuild == CacheMissing(adj)
        g == IF rebuild THEN BuildGlobalGraph(globalNodes, globalEdges)
             ELSE [globalEdges |-> globalEdges, adj |-> adj]
        early == startId \notin DOMAIN idMap \/ targetIds = {}
    IN \E r \in {IF early THEN [path |-> <<>>, dist |-> 0]
                 ELSE Dijkstra(globalNodes[idMap[startId]].id, targetIds, g.adj, mode)} :
         /\ path' = r.path
         /\ globalEdges' = IF early THEN globalEdges ELSE g.globalEdges
         /\ adj' = IF early THEN adj ELSE g.adj
         /\ call' = [made |-> TRUE, startId |-> startId, endId |-> endId,
                     mode |-> mode, ret |-> r.path, dist |-> r.dist]
         /\ routeList' = IF more >= 1 THEN RouteShown(routeList, r.path) ELSE routeList
         /\ LET fitted == IF early THEN v ELSE FitFound(v, r.path)
            IN SetView(Settled(FitTimes(fitted, r.path, more)))

\* calculatePath(startId, endId)
CalculatePath(startId, endId) ==
    /\ pc = "ready"
    /\ ViewBounded
    /\ inputs < MaxCalls
    /\ inputs' = inputs + 1
    /\ RunCalculatePath(startId, endId, accessibilityMode, View, 0)
    /\ UNCHANGED <<floorJson, minHeap, scanner, layoutPath, pc, pending, floorOffsets, floorCropX, globalNodes,
                   idMap, floorVisuals, accessibilityMode, startSelect, endSelect>>

\* the d3 timer: the scheduled transitions start, the last one keeps running
TimerFlush ==
    /\ scheduled # <<>>
    /\ SetView(StartAll(View, scheduled, 1))
    /\ UNCHANGED <<floorJson, minHeap, routeList, scanner, layoutPath, pc, pending, floorOffsets, floorCropX, globalNodes,
                   globalEdges, idMap, adj, floorVisuals, accessibilityMode, path,
                   startSelect, endSelect, call, inputs>>

\* the d3 timer: the running transition reaches its end
TransitionEnd ==
    /\ running # NoTransition
    /\ SetView(EndTransition(View))
    /\ UNCHANGED <<floorJson, minHeap, routeList, scanner, layoutPath, pc, pending, floorOffsets, floorCropX, globalNodes,
                   globalEdges, idMap, adj, floorVisuals, accessibilityMode, path,
                   startSelect, endSelect, call, inputs>>

-----------------------------------------------------------------------------
(* UIController: the rest of init after loadAllData, and the route triggers *)

\* the option values updateSelects gives the start selector (part_001:256-258)
StartOptions ==
    {globalNodes[i].id : i \in {j \in DOMAIN globalNodes :
        globalNodes[j].name # <<>> /\ globalNodes[j].type # "junction"}}

\* the end selector has the system options as well (part_001:303-310)
EndOptions == StartOptions \cup {NEAREST_MALE, NEAREST_FEMALE, NEAREST_VENDING}

\* UIController.calculateRoute with the selector values and the flag as
\* given, on the view v
CalculateRoute(startVal, endVal, mode, v) ==
    IF startVal = NoValue \/ endVal = NoValue
    THEN UNCHANGED <<path, globalEdges, adj, call, routeList>> /\ SetView(Settled(v))
    ELSE RunCalculatePath(startVal, endVal, mode, v, 1)

\* onChange of the start selector (part_001:91-97) on the view v: the view
\* before calculateRoute
StartFocused(val, endVal, v) ==
    IF val # NoValue /\ endVal = NoValue
    THEN FocusNode(v, val, Q(15, 10), globalNodes, idMap)
    ELSE v

\* the value of the URL parameter 'current' (NoValue: no such parameter)
CurrentIds == {NoValue, <<1, "q">>, <<2, "a">>}

\* init after the awaited loadAllData (part_001:90-236): the selectors are
\* created and filled, the listeners attached, and the URL parameter
\* 'current', if any, is selected as the start
InitControls(currentId) ==
    /\ pc = "loaded"
    /\ pc' = "ready"
    /\ startSelect' = currentId
    /\ LET switched == SwitchFloor(View, DEFAULT_FLOOR_ID, floorOffsets)
           once == StartFocused(currentId, endSelect, switched)
           twice == IF currentId \in DOMAIN idMap
                    THEN StartFocused(currentId, endSelect, once) ELSE once
       IN CalculateRoute(currentId, endSelect, accessibilityMode, twice)
    /\ UNCHANGED <<floorJson, minHeap, scanner, layoutPath, pending, floorOffsets, floorCropX, globalNodes,
                   idMap, floorVisuals, accessibilityMode, endSelect, inputs>>

\* mutant: the listeners are attached when the controller is constructed
ControlsReadyAtConstruction == TRUE

\* the selectors exist and the listeners of the controls are attached: init
\* has passed the awaited loadAllData (part_001:87-189)
ControlsReady == pc = "ready"

\* onChange of the start selector (part_001:91-97)
SelectStart(val) ==
    /\ ControlsReady
    /\ val \in StartOptions
    /\ ViewBounded
    /\ startSelect' = val
    /\ CalculateRoute(val, endSelect, accessibilityMode,
                      StartFocused(val, endSelect, View))
    /\ UNCHANGED <<floorJson, minHeap, scanner, layoutPath, pc, pending, floorOffsets, floorCropX, globalNodes,
                   idMap, floorVisuals, accessibilityMode, endSelect, inputs>>

\* onChange of the end selector (part_001:98-100)
SelectEnd(val) ==
    /\ ControlsReady
    /\ val \in EndOptions
    /\ ViewBounded
    /\ endSelect' = val
    /\ CalculateRoute(startSelect, val, accessibilityMode, View)
    /\ UNCHANGED <<floorJson, minHeap, scanner, layoutPath, pc, pending, floorOffsets, floorCropX, globalNodes,
                   idMap, floorVisuals, accessibilityMode, startSelect, inputs>>

\* the change listener of the accessibility toggle (part_001:171-178)
ToggleAccessibility(checked) ==
    /\ ControlsReady
    /\ ViewBounded
    /\ accessibilityMode' = checked
    /\ CalculateRoute(startSelect, endSelect, checked, View)
    /\ UNCHANGED <<floorJson, minHeap, scanner, layoutPath, pc, pending, floorOffsets, floorCropX, globalNodes,
                   idMap, floorVisuals, startSelect, endSelect, inputs>>

\* handleScanSuccess with the id read from the code (part_001:619-685): an
\* id no node has is reported; otherwise the id is selected as the start,
\* which runs onChange of the start selector, and with an end selected
\* calculatePath runs once more on the same graph with the same arguments
HandleScanSuccess(currentId) ==
    IF currentId \notin DOMAIN idMap
    THEN UNCHANGED <<startSelect, path, globalEdges, adj, call, viewVars, routeList>>
    ELSE /\ startSelect' = currentId
         /\ IF endSelect = NoValue
            THEN CalculateRoute(currentId, endSelect, accessibilityMode,
                                StartFocused(currentId, endSelect, View))
            ELSE RunCalculatePath(currentId, endSelect, accessibilityMode, View, 2)

\* a code was read and handed to handleScanSuccess (part_001:593), the
\* scanner left aside
ScanSuccess(currentId) ==
    /\ ControlsReady
    /\ ViewBounded
    /\ HandleScanSuccess(currentId)
    /\ UNCHANGED <<floorJson, minHeap, scanner, layoutPath, pc, pending, floorOffsets, floorCropX, globalNodes,
                   idMap, floorVisuals, accessibilityMode, endSelect, inputs>>

\* the ids a selection is made with
StartIds == {<<1, "a">>, <<2, "a">>, <<2, "b">>}
EndIds == {<<1, "b">>, <<NumFloors, "c">>,
           NEAREST_MALE, NEAREST_FEMALE, NEAREST_VENDING}
ScanIds == {<<1, "q">>, <<1, "a">>, <<2, "b">>}

Next ==
    \/ LoadAllData
    \/ ImagesLoaded
    \/ \E conf \in FLOORS : JsonLoaded(conf)
    \/ GraphReady
    \/ \E currentId \in CurrentIds : InitControls(currentId)
    \/ \E val \in StartIds : SelectStart(val)
    \/ \E val \in EndIds : SelectEnd(val)
    \/ \E checked \in BOOLEAN : ToggleAccessibility(checked)
    \/ \E currentId \in ScanIds : ScanSuccess(currentId)

\* the floor files of the maps the controller is followed on
RoutedFiles ==
    {[f \in FLOORS |-> IF f = 1 THEN FetchFails ELSE FileB],
     [f \in FLOORS |-> IF f = 1 THEN FileA ELSE IF f = NumFloors THEN FileB ELSE FileC],
     [f \in FLOORS |-> IF f = 1 THEN FileD ELSE IF f = 2 THEN FileA ELSE FileC]}

InitRouted == Init /\ floorJson \in RoutedFiles

Spec == InitRouted /\ [][Next]_vars

-----------------------------------------------------------------------------
(* The planner on arbitrary graphs of the data model: the node table is    *)
(* fixed, the edge list is drawn from typed weighted edges (parallel edges *)
(* included), and the adjacency cache is built from it as by               *)
(* buildGlobalGraph.                                                       *)

LocalNames == <<"a", "b", "c", "d", "e", "f">>

PlanNode(i) ==
    [id |-> NodeId(1, LocalNames[i]),
     originalId |-> LocalNames[i],
     floorId |-> 1,
     type |-> IF i % 3 = 1 THEN "toilet" ELSE "vending",
     name |-> IF i % 3 = 1 THEN MaleToilet ELSE NoName,
     connectionId |-> NoName,
     x |-> i * 100 * Scale, baseX |-> i * 100 * Scale,
     localY |-> i * 50, y |-> (i * 50 + (NumFloors - 1) * (800 + FLOOR_GAP)) * Scale]

PlanNodes == [i \in 1..NumNodes |-> PlanNode(i)]

\* the (dist, type) of the edges a graph is drawn from
EdgeKinds == << [dist |-> 30, type |-> Undefined],
                [dist |-> 60000, type |-> Undefined],
                [dist |-> 100, type |-> "elevator"],
                [dist |-> 50, type |-> "stairs"],
                [dist |-> 0, type |-> "transfer"] >>

PlanPairs == PairsFrom(NumNodes, 1, 2)

NumOptions == Len(PlanPairs) * Len(EdgeKinds)

PlanEdge(o) ==
    LET pr == PlanPairs[((o - 1) \div Len(EdgeKinds)) + 1]
        kd == EdgeKinds[((o - 1) % Len(EdgeKinds)) + 1]
    IN IF kd.type = Undefined
       THEN [from |-> PlanNode(pr[1]).id, to |-> PlanNode(pr[2]).id,
             dist |-> kd.dist, floorId |-> 1]
       ELSE [from |-> PlanNode(pr[1]).id, to |-> PlanNode(pr[2]).id,
             dist |-> kd.dist, type |-> kd.type]

\* edge lists of at most MaxEdges different edges
PlanEdgeLists ==
    UNION {{[k \in 1..n |-> PlanEdge(s[k])] :
              s \in {t \in [1..n -> 1..NumOptions] :
                        \A k \in 1..(n - 1) : t[k] < t[k + 1]}} : n \in 0..MaxEdges}

InitPlan ==
    /\ floorJson = [f \in FLOORS |-> FetchFails]
    /\ pc = "ready"
    /\ pending = {}
    /\ floorOffsets = StaticOffsets(NumFloors, 0, [f \in FLOORS |-> 0])
    /\ floorCropX = [f \in FLOORS |-> CropX(f)]
    /\ globalNodes = PlanNodes
    /\ globalEdges \in PlanEdgeLists
    /\ idMap = [id \in {PlanNode(i).id : i \in 1..NumNodes} |->
                  CHOOSE i \in 1..NumNodes : PlanNode(i).id = id]
    /\ adj = BuildAdj(globalEdges, 1, [id \in {PlanNode(i).id : i \in 1..NumNodes} |-> <<>>])
    /\ floorVisuals = FloorVisuals(<<>>, globalNodes, idMap)
    /\ layoutPath = <<>>
    /\ accessibilityMode \in BOOLEAN
    /\ path = <<>>
    /\ startSelect = NoValue
    /\ endSelect = NoValue
    /\ call = NoCall
    /\ InitView(NewView)
    /\ inputs = 0
    /\ scanner = ScannerOff
    /\ routeList = <<>>
    /\ minHeap = NewHeap

PlanStartIds == {PlanNode(i).id : i \in 1..NumNodes} \cup {<<1, "q">>}
PlanEndIds == {PlanNode(i).id : i \in 1..NumNodes}
                 \cup {<<1, "q">>, NEAREST_MALE, NEAREST_FEMALE, NEAREST_VENDING}

NextPlan ==
    \E startId \in PlanStartIds, endId \in PlanEndIds : CalculatePath(startId, endId)

SpecPlan == InitPlan /\ [][NextPlan]_vars

-----------------------------------------------------------------------------
(* The view methods and the pointer handlers on a loaded map *)

\* the world positions of the nodes of the map, all on the top floor
ViewXY == << <<500, 500>>, <<500, 300>>, <<700, 500>>, <<300, 700>> >>

ViewNode(i) ==
    [id |-> NodeId(NumFloors, LocalNames[i]),
     originalId |-> LocalNames[i],
     floorId |-> NumFloors,
     type |-> "room",
     name |-> <<"R">>,
     connectionId |-> NoName,
     x |-> ViewXY[i][1] * Scale, baseX |-> ViewXY[i][1] * Scale,
     localY |-> ViewXY[i][2], y |-> ViewXY[i][2] * Scale]

ViewNodes == [i \in 1..Len(ViewXY) |-> ViewNode(i)]

ViewIds == {ViewNode(i).id : i \in 1..Len(ViewXY)}

\* the engine after loadAllData of that map, the view as constructed
InitViewer ==
    /\ floorJson = [f \in FLOORS |-> FetchFails]
    /\ pc = "ready"
    /\ pending = {}
    /\ floorOffsets = StaticOffsets(NumFloors, 0, [f \in FLOORS |-> 0])
    /\ floorCropX = [f \in FLOORS |-> CropX(f)]
    /\ globalNodes = ViewNodes
    /\ globalEdges = <<>>
    /\ idMap = [id \in ViewIds |-> CHOOSE i \in 1..Len(ViewXY) : ViewNode(i).id = id]
    /\ adj = [id \in ViewIds |-> <<>>]
    /\ floorVisuals = FloorVisuals(<<>>, globalNodes, idMap)
    /\ layoutPath = <<>>
    /\ accessibilityMode = FALSE
    /\ path = <<>>
    /\ startSelect = NoValue
    /\ endSelect = NoValue
    /\ call = NoCall
    /\ InitView(NewView)
    /\ inputs = 0
    /\ scanner = ScannerOff
    /\ routeList = <<>>
    /\ minHeap = NewHeap

\* one input of the view: v is the view it leaves
ViewInput(v) ==
    /\ pc = "ready"
    /\ ViewBounded
    /\ inputs < MaxInputs
    /\ inputs' = inputs + 1
    /\ SetView(v)
    /\ UNCHANGED <<floorJson, minHeap, routeList, scanner, layoutPath, pc, pending, floorOffsets, floorCropX, globalNodes,
                   globalEdges, idMap, adj, floorVisuals, accessibilityMode, path,
                   startSelect, endSelect, call>>

\* mousedown (part_000:70-75)
PointerDown == ViewInput([View EXCEPT !.isDragging = TRUE])

\* mouseup, touchend (part_000:77-83, 124-126)
PointerUp == ViewInput([View EXCEPT !.isDragging = FALSE])

\* mutant: a move pans whether or not a drag is on
PointerMoveAlways(dx, dy) == ViewInput(ApplyRotatedPan(View, dx, dy))

\* mousemove (part_000:85-94)
PointerMove(dx, dy) ==
    ViewInput(IF ~isDragging THEN View ELSE ApplyRotatedPan(View, dx, dy))

\* touchstart with the given number of touches (part_000:97-107)
TouchStart(touches) ==
    ViewInput(IF touches = 1 THEN [View EXCEPT !.isDragging = TRUE] ELSE View)

\* touchmove with the given number of touches (part_000:109-122)
TouchMove(touches, dx, dy) ==
    ViewInput(IF ~isDragging \/ touches # 1 THEN View
              ELSE ApplyRotatedPan(View, dx, dy))

CallFitToPath(pathNodes) == ViewInput(FitToPath(View, pathNodes, globalNodes, idMap))
CallFitBounds(ns) == ViewInput(FitBounds(View, ns))
CallFocusNode(id, zoomLevel) ==
    ViewInput(FocusNode(View, id, zoomLevel, globalNodes, idMap))
CallSetRotation(angle) == ViewInput(SetRotation(View, angle))
CallPanToNode(i) == ViewInput(PanToNode(View, globalNodes[i]))
CallSwitchFloor(floorId) == ViewInput(SwitchFloor(View, floorId, floorOffsets))
CallZoomIn == ViewInput(ZoomIn(View))
CallZoomOut == ViewInput(ZoomOut(View))

\* the change listener of the auto-rotation toggle (part_001:157-167)
ToggleRotation(checked) ==
    ViewInput(LET v == [View EXCEPT !.enableAutoRotation = checked]
              IN IF ~checked THEN SetRotation(v, 0) ELSE v)

\* the inputs of the view
Unknown == <<NumFloors, "q">>
Moves == {<<10, 0>>, <<0, -20>>}
Touches == {1, 2}
ViewPaths ==
    {<<>>, << ViewNode(1).id >>, << Unknown >>,
     << ViewNode(1).id, ViewNode(2).id >>, << ViewNode(1).id, ViewNode(3).id >>,
     << ViewNode(4).id, ViewNode(1).id, ViewNode(3).id >>,
     << ViewNode(1).id, Unknown >>}
NodeLists ==
    {<<>>, << ViewNode(1) >>, << ViewNode(2), ViewNode(4) >>,
     << [id |-> Unknown] >>, << [id |-> Unknown], ViewNode(3), ViewNode(4) >>}
ZoomLevels == {Q(15, 10), R(10), Q(1, 20)}
Angles == {0, 90, 170, -170}

NextViewer ==
    \/ PointerDown
    \/ PointerUp
    \/ \E m \in Moves : PointerMove(m[1], m[2])
    \/ \E touches \in Touches : TouchStart(touches)
    \/ \E touches \in Touches, m \in Moves : TouchMove(touches, m[1], m[2])
    \/ \E pathNodes \in ViewPaths : CallFitToPath(pathNodes)
    \/ \E ns \in NodeLists : CallFitBounds(ns)
    \/ \E id \in {ViewNode(1).id, Unknown}, zoomLevel \in ZoomLevels :
          CallFocusNode(id, zoomLevel)
    \/ \E angle \in Angles : CallSetRotation(angle)
    \/ \E i \in {1, 4} : CallPanToNode(i)
    \/ \E floorId \in {1, DEFAULT_FLOOR_ID} : CallSwitchFloor(floorId)
    \/ CallZoomIn
    \/ CallZoomOut
    \/ \E checked \in BOOLEAN : ToggleRotation(checked)
    \/ TimerFlush
    \/ TransitionEnd

SpecViewer == InitViewer /\ [][NextViewer]_vars

-----------------------------------------------------------------------------
(* The QR scanner of UIController: startScanner with its two awaits, the   *)
(* animation-frame loop tick, and stopScanner.  A stream is the number     *)
(* getUserMedia handed it out with, 0 is null; live holds the streams      *)
(* whose tracks have not been stopped; lastTick says what the last step    *)
(* did if it was a tick; reported counts the results handed to             *)
(* handleScanSuccess since the last startScanner.                          *)

MaxStarts == 2
MaxFrames == 2

\* the fields stopScanner leaves (part_001:601-617)
Stopped(s) ==
    [s EXCEPT !.isScanning = FALSE, !.isScanningLocked = FALSE,
              !.live = IF s.srcObject # 0 THEN @ \ {s.srcObject} ELSE @,
              !.srcObject = 0, !.overlay = FALSE]

\* this.video.srcObject = stream (part_001:539)
Attach(s, stream) == [s EXCEPT !.srcObject = stream]

\* a step of the scanner alone
ScannerStep(s) ==
    /\ pc = "ready"
    /\ scanner' = s
    /\ UNCHANGED <<floorJson, minHeap, routeList, layoutPath, pc, pending, floorOffsets, floorCropX,
                   globalNodes, globalEdges, idMap, adj, floorVisuals,
                   accessibilityMode, path, startSelect, endSelect, call,
                   viewVars, inputs>>

\* a click on the scan button: startScanner up to its first await
\* (part_001:520-535)
StartScanner ==
    /\ ~scanner.overlay
    /\ scanner.started < MaxStarts
    /\ ScannerStep([scanner EXCEPT !.overlay = TRUE, !.isScanning = TRUE,
                                   !.isScanningLocked = FALSE,
                                   !.awaits = Append(@, [at |-> "camera", stream |-> 0]),
                                   !.started = @ + 1, !.reported = 0,
                                   !.lastTick = "none"])

\* getUserMedia resolves for the i-th awaiting startScanner: the stream is
\* attached and play() is awaited (part_001:535-541)
CameraGranted(i) ==
    /\ i \in DOMAIN scanner.awaits
    /\ scanner.awaits[i].at = "camera"
    /\ LET stream == scanner.streams + 1
           s == [scanner EXCEPT !.streams = stream, !.live = @ \cup {stream},
                                !.awaits[i] = [at |-> "play", stream |-> stream],
                                !.lastTick = "none"]
       IN ScannerStep(Attach(s, stream))

RemoveAt(q, i) == SubSeq(q, 1, i - 1) \o SubSeq(q, i + 1, Len(q))

\* getUserMedia or play() rejects for the i-th awaiting startScanner: the
\* catch block (part_001:546-554)
CameraFailed(i) ==
    /\ i \in DOMAIN scanner.awaits
    /\ ScannerStep(Stopped([scanner EXCEPT !.awaits = RemoveAt(@, i),
                                           !.lastTick = "none"]))

\* play() resolves: the first animation frame is requested (part_001:541-544)
VideoPlaying(i) ==
    /\ i \in DOMAIN scanner.awaits
    /\ scanner.awaits[i].at = "play"
    /\ scanner.frames < MaxFrames
    /\ ScannerStep([scanner EXCEPT !.awaits = RemoveAt(@, i), !.frames = @ + 1,
                                   !.lastTick = "none"])

\* what a frame shows: the video is not ready, no code, or a code with an id
NotReady == "not ready"
NoCode == "no code"
Frames == {NotReady, NoCode, <<1, "q">>, <<NumFloors, "a">>}

\* one requested animation frame: tick (part_001:557-599)
Tick(frame) ==
    /\ pc = "ready"
    /\ scanner.frames > 0
    /\ IF ~scanner.isScanning
       THEN ScannerStep([scanner EXCEPT !.frames = @ - 1, !.lastTick = "returned"])
       ELSE IF scanner.srcObject = 0 \/ frame = NotReady
       THEN ScannerStep([scanner EXCEPT !.lastTick = "waited"])
       ELSE IF frame = NoCode \/ scanner.isScanningLocked
       THEN ScannerStep([scanner EXCEPT !.lastTick = "decoded"])
       ELSE /\ ViewBounded
            /\ scanner' = Stopped([scanner EXCEPT !.frames = @ - 1,
                                                  !.lastTick = "reported",
                                                  !.reported = @ + 1])
            /\ HandleScanSuccess(frame)
            /\ UNCHANGED <<floorJson, minHeap, layoutPath, pc, pending, floorOffsets,
                           floorCropX, globalNodes, idMap, floorVisuals,
                           accessibilityMode, endSelect, inputs>>

\* a click on the close button: stopScanner (part_001:188, 601-617)
StopScanner == ScannerStep(Stopped([scanner EXCEPT !.lastTick = "none"]))

NextScanner ==
    \/ StartScanner
    \/ \E i \in 1..MaxStarts : CameraGranted(i)
    \/ \E i \in 1..MaxStarts : CameraFailed(i)
    \/ \E i \in 1..MaxStarts : VideoPlaying(i)
    \/ \E frame \in Frames : Tick(frame)
    \/ StopScanner

SpecScanner == InitViewer /\ [][NextScanner]_vars

-----------------------------------------------------------------------------
(* A MinHeap under arbitrary pushes and pops *)

MaxHeapSize == 5
MaxPushes == 7
HeapDists == 0..3

\* one call of a MinHeap method: h is what it leaves
HeapStep(h) ==
    /\ minHeap' = h
    /\ UNCHANGED <<floorJson, scanner, routeList, layoutPath, pc, pending,
                   floorOffsets, floorCropX, globalNodes, globalEdges, idMap, adj,
                   floorVisuals, accessibilityMode, path, startSelect, endSelect,
                   call, viewVars, inputs>>

\* push({id, dist}) (part_000:1635-1638)
Push(dist) ==
    /\ Len(minHeap.heap) < MaxHeapSize
    /\ minHeap.pushes < MaxPushes
    /\ HeapStep([minHeap EXCEPT
            !.heap = HeapPush(@, [id |-> NodeId(1, "a"), dist |-> dist]),
            !.pushes = @ + 1])

\* pop() (part_000:1639-1648)
Pop ==
    IF Len(minHeap.heap) = 0
    THEN HeapStep([minHeap EXCEPT !.min = Null])
    ELSE HeapStep([minHeap EXCEPT !.heap = HeapPop(@), !.min = minHeap.heap[1],
                                  !.returned = @ + 1])

\* size() (part_000:1649-1651)
Size(h) == Len(h.heap)

NextHeap ==
    \/ \E dist \in HeapDists : Push(dist)
    \/ Pop

SpecHeap == InitViewer /\ [][NextHeap]_vars

-----------------------------------------------------------------------------
(* updateFloorLayout applied to the loaded graph with arbitrary paths *)

\* updateFloorLayout(pathNodes)
CallUpdateFloorLayout(pathNodes) ==
    /\ pc = "loaded"
    /\ LET l == UpdateFloorLayout(pathNodes, globalNodes, idMap)
       IN /\ floorVisuals' = l.floorVisuals
          /\ globalNodes' = l.globalNodes
    /\ layoutPath' = pathNodes
    /\ UNCHANGED <<floorJson, minHeap, routeList, scanner, pc, pending, floorOffsets, floorCropX, globalEdges,
                   idMap, adj, accessibilityMode, path, startSelect, endSelect, call,
                   viewVars, inputs>>

\* the paths a layout is asked for
LayoutPaths ==
    {<<>>, << <<1, "a">> >>, << <<1, "a">>, <<1, "b">> >>,
     << <<1, "a">>, <<NumFloors, "c">> >>,
     << <<NumFloors, "c">>, <<2, "b">>, <<1, "a">> >>,
     << <<1, "a">>, <<2, "b">> >>, << <<2, "b">>, <<NumFloors, "b">> >>,
     << <<1, "q">>, <<NumFloors, "c">> >>}

NextLayout ==
    \/ LoadAllData
    \/ ImagesLoaded
    \/ \E conf \in FLOORS : JsonLoaded(conf)
    \/ GraphReady
    \/ \E pathNodes \in LayoutPaths : CallUpdateFloorLayout(pathNodes)

SpecLayout == Init /\ [][NextLayout]_vars

-----------------------------------------------------------------------------
(* Reference definitions the planner claims are stated with.  They are    *)
(* computed by exhaustive relaxation over the adjacency cache, without    *)
(* the heap, the visited set or early termination.                        *)

SetMin(S) == CHOOSE m \in S : \A x \in S : m <= x

RECURSIVE SumSeq(_, _)
SumSeq(s, i) == IF i > Len(s) THEN 0 ELSE s[i] + SumSeq(s, i + 1)

\* the effective weight as the specification states it, in tenths
StatedWeight(e, mode) ==
    IF mode
    THEN IF e.type = "elevator" THEN e.dist
         ELSE IF e.type = "stairs" THEN (e.dist + 50000) * 10
         ELSE e.dist * 10
    ELSE IF e.type = "elevator" THEN (e.dist + 2000) * 10
         ELSE e.dist * 10

\* the base weight of a non-stairs entry, for stairs-free walks
BaseWeight(e, mode) == e.dist

KeepAll(e) == TRUE
NotStairs(e) == e.type # "stairs"

\* one round of relaxation of the distance table D over every entry kept by Keep
RelaxAll(D, W(_, _), Keep(_), mode) ==
    LET cand(v) == (IF v \in DOMAIN D THEN {D[v]} ELSE {})
                     \cup UNION {{D[u] + W(adj[u][k], mode) :
                                    k \in {j \in DOMAIN adj[u] :
                                             adj[u][j].to = v /\ Keep(adj[u][j])}} :
                                  u \in DOMAIN D \cap DOMAIN adj}
        reached == {v \in DOMAIN adj \cup DOMAIN D : cand(v) # {}}
    IN [v \in reached |-> SetMin(cand(v))] @@ EmptyMap

RECURSIVE Relaxed(_, _, _, _, _)
Relaxed(n, D, W(_, _), Keep(_), mode) ==
    IF n = 0 THEN D ELSE Relaxed(n - 1, RelaxAll(D, W, Keep, mode), W, Keep, mode)

\* least total weight from s to every node a walk reaches
MinDist(s, W(_, _), Keep(_), mode) ==
    Relaxed(Cardinality(DOMAIN adj), (s :> 0), W, Keep, mode)

\* the entries of the adjacency cache that join u to v
Joining(u, v) ==
    IF u \in DOMAIN adj THEN {adj[u][k] : k \in {j \in DOMAIN adj[u] : adj[u][j].to = v}}
    ELSE {}

\* total stated weight of a node path, each hop by its cheapest joining entry
PathWeight(p, mode) ==
    SumSeq([i \in 1..(Len(p) - 1) |->
              SetMin({StatedWeight(e, mode) : e \in Joining(p[i], p[i + 1])})], 1)

IsWalk(p) == \A i \in 1..(Len(p) - 1) : Joining(p[i], p[i + 1]) # {}

\* the target set as the specification states it
StatedTargets(endId) ==
    LET ids(P(_)) == {globalNodes[i].id : i \in {j \in DOMAIN globalNodes : P(globalNodes[j])}}
        named(n, kws) == n.type = "toilet" /\ \E k \in kws : Includes(n.name, k)
        vending(n) == n.type = "vending"
        male(n) == named(n, {<<"m", "s">>, <<"m", "k">>})
        female(n) == named(n, {<<"f", "s">>, <<"f", "k">>})
        same(n) == n.id = endId
    IN IF endId = NEAREST_VENDING THEN ids(vending)
       ELSE IF endId = NEAREST_MALE THEN ids(male)
       ELSE IF endId = NEAREST_FEMALE THEN ids(female)
       ELSE ids(same)

CallTargets == StatedTargets(call.endId)

CallResolved == call.made /\ call.startId \in DOMAIN idMap

\* C1: when the start resolves and some target is reachable, the returned path
\* is a walk whose total effective weight is the least over all walks from the
\* start to any target, and the distance the search reports is that weight
C1_Optimal ==
    CallResolved =>
        LET D == MinDist(call.startId, StatedWeight, KeepAll, call.mode)
            hit == CallTargets \cap DOMAIN D
        IN hit # {} =>
             /\ call.ret # <<>>
             /\ IsWalk(call.ret)
             /\ PathWeight(call.ret, call.mode) = SetMin({D[t] : t \in hit})
             /\ call.dist = SetMin({D[t] : t \in hit})
             /\ call.ret[Len(call.ret)] \in hit
             /\ D[call.ret[Len(call.ret)]] = SetMin({D[t] : t \in hit})

\* a NEAREST_VENDING request from a with both vending nodes b and c adjacent
\* to a was answered with the farther-listed but cheaper c
C1_Witness ==
    /\ call.made /\ call.endId = NEAREST_VENDING /\ call.startId = <<1, "a">>
    /\ Joining(<<1, "a">>, <<1, "b">>) # {}
    /\ Joining(<<1, "a">>, <<1, "c">>) # {}
    /\ call.ret = << <<1, "a">>, <<1, "c">> >>
    /\ PathWeight(<< <<1, "a">>, <<1, "b">> >>, call.mode) > PathWeight(call.ret, call.mode)

\* C2: a non-empty returned path starts at the requested start, ends in the
\* resolved target set, and every two consecutive ids are joined by an
\* adjacency entry
C2_PathShape ==
    (call.made /\ call.ret # <<>>) =>
        /\ call.ret[1] = call.startId
        /\ call.ret[Len(call.ret)] \in CallTargets
        /\ \A i \in 1..(Len(call.ret) - 1) :
              \E k \in DOMAIN adj[call.ret[i]] : adj[call.ret[i]][k].to = call.ret[i + 1]

C2_Witness ==
    /\ call.made /\ Len(call.ret) >= 3
    /\ call.endId \notin {NEAREST_MALE, NEAREST_FEMALE, NEAREST_VENDING}

ElevatorEdge == [from |-> <<1, "a">>, to |-> <<1, "b">>, dist |-> 100, type |-> "elevator"]
StairsEdge == [from |-> <<1, "a">>, to |-> <<1, "b">>, dist |-> 50, type |-> "stairs"]

\* the graph of the elevator-or-stairs scenario: exactly these two edges
ScenarioB == Range(globalEdges) = {ElevatorEdge, StairsEdge} /\ Len(globalEdges) = 2

\* C5: accessibility ON; when some target is reachable over a stairs-free walk
\* of total base weight below 50000, the returned path is stairs-free (every
\* hop has a non-stairs entry and the reported cost carries no stairs penalty);
\* in the scenario graph the route a -> b costs 10 (the elevator edge)
C5_AvoidsStairs ==
    (CallResolved /\ call.mode) =>
        LET B == MinDist(call.startId, BaseWeight, NotStairs, TRUE)
            ok == {t \in CallTargets \cap DOMAIN B : B[t] < 50000}
        IN /\ ok # {} =>
                /\ call.ret # <<>>
                /\ \A i \in 1..(Len(call.ret) - 1) :
                      \E e \in Joining(call.ret[i], call.ret[i + 1]) : NotStairs(e)
                /\ call.dist < 50000 * 10
           /\ (ScenarioB /\ call.startId = <<1, "a">> /\ call.endId = <<1, "b">>) =>
                (call.ret = << <<1, "a">>, <<1, "b">> >> /\ call.dist = 10 * 10)

C5_Witness ==
    /\ call.made /\ call.mode /\ ScenarioB
    /\ call.startId = <<1, "a">> /\ call.endId = <<1, "b">>
    /\ call.ret # <<>>

\* the nodes reachable from s over the adjacency cache
RECURSIVE Closure(_)
Closure(S) ==
    LET T == S \cup UNION {{adj[u][k].to : k \in DOMAIN adj[u]} : u \in S \cap DOMAIN adj}
    IN IF T = S THEN S ELSE Closure(T)

\* C3: the returned path is empty exactly when the start does not resolve, the
\* target set is empty, or no target is reachable from the start; the engine's
\* active path is then empty too
C3_EmptyExactly ==
    call.made =>
        /\ (call.ret = <<>>) <=>
              \/ call.startId \notin DOMAIN idMap
              \/ CallTargets = {}
              \/ CallTargets \cap Closure({call.startId}) = {}
        /\ call.ret = <<>> => path = <<>>
        /\ path = call.ret

\* a resolvable start, a non-empty target set, and no route between them
C3_Witness ==
    /\ call.made /\ call.ret = <<>> /\ path = <<>>
    /\ call.startId \in DOMAIN idMap
    /\ CallTargets # {}

-----------------------------------------------------------------------------
(* Claims about the loaded graph (specification Spec) *)

Loaded == pc \in {"loaded", "ready"}

\* the input record of a stored intra-floor edge is flagged barrierFreeBlocked
InputBlocked(e) ==
    \A r \in Range(floorJson[e.floorId].edges) :
        (e.from = <<e.floorId, r.from>> /\ e.to = <<e.floorId, r.to>>)
            => BarrierFreeBlocked(r)

\* a hop u -> v can be made over an edge that no input record flags
HopUnblocked(u, v) ==
    \E i \in DOMAIN globalEdges :
        LET e == globalEdges[i]
        IN /\ {e.from, e.to} = {u, v}
           /\ ("floorId" \in DOMAIN e => ~InputBlocked(e))

\* C4: with accessibility ON no returned path traverses an edge whose input
\* record was flagged barrierFreeBlocked
C4_NoBlockedEdge ==
    (call.made /\ call.mode /\ call.ret # <<>>) =>
        \A i \in 1..(Len(call.ret) - 1) : HopUnblocked(call.ret[i], call.ret[i + 1])

SameAttrs(e, en) == e.dist = en.dist /\ Prop(e, "type") = en.type

\* how many entries of adj[a] equal en
EntryCount(a, en) == Cardinality({k \in DOMAIN adj[a] : adj[a][k] = en})

\* how many entries the edge list asks adj[a] to hold that equal en
EdgeCount(a, en) ==
    Cardinality({i \in DOMAIN globalEdges :
        globalEdges[i].from = a /\ globalEdges[i].to = en.to /\ SameAttrs(globalEdges[i], en)})
    + Cardinality({i \in DOMAIN globalEdges :
        globalEdges[i].to = a /\ globalEdges[i].from = en.to /\ SameAttrs(globalEdges[i], en)})

\* C6: after a build every edge (a, b, dist, type) of the edge list has the
\* entry {to: b, dist, type} in adj[a] and {to: a, dist, type} in adj[b], and
\* the cache holds no other entries (each as often as the edge list has it)
C6_Symmetric ==
    Loaded =>
        /\ \A i \in DOMAIN globalEdges :
              LET e == globalEdges[i]
              IN /\ [to |-> e.to, dist |-> e.dist, type |-> Prop(e, "type")] \in Range(adj[e.from])
                 /\ [to |-> e.from, dist |-> e.dist, type |-> Prop(e, "type")] \in Range(adj[e.to])
        /\ \A a \in DOMAIN adj : \A en \in Range(adj[a]) : EntryCount(a, en) = EdgeCount(a, en)

\* a built graph with an intra-floor edge and a typed transfer edge
C6_Witness ==
    /\ Loaded
    /\ \E i, j \in DOMAIN globalEdges :
          /\ "floorId" \in DOMAIN globalEdges[i]
          /\ Prop(globalEdges[j], "type") = "stairs"

\* the connection key as the specification states it
StatedKey(n) ==
    IF n.type \in {"stairs", "elevator"} /\ n.name # <<>> THEN n.name
    ELSE n.connectionId

StatedKeys == {StatedKey(globalNodes[i]) : i \in DOMAIN globalNodes} \ {<<>>}

\* the node records grouped under key
Group(key) == {i \in DOMAIN globalNodes : StatedKey(globalNodes[i]) = key}

GroupIds(key) == {globalNodes[i].id : i \in Group(key)}

\* the directed entries among the nodes of a key that satisfy P
Among(key, P(_)) ==
    UNION {{<<a, k>> : k \in {j \in DOMAIN adj[a] :
                                 adj[a][j].to \in GroupIds(key) /\ P(adj[a][j])}} :
             a \in GroupIds(key)}

Typed(en) == en.type # Undefined

\* C7 as stated: a key with N >= 2 nodes has exactly N x (N-1) directed
\* entries among its nodes
C7_CliqueCount ==
    Loaded =>
        \A key \in StatedKeys :
            LET N == Cardinality(Group(key))
            IN N >= 2 => Cardinality(Among(key, KeepAll)) = N * (N - 1)

\* the type and weight a transfer edge between two records is stated to have
StatedType(n1, n2) ==
    IF n1.type = "elevator" /\ n2.type = "elevator" THEN "elevator"
    ELSE IF n1.type = "stairs" /\ n2.type = "stairs" THEN "stairs"
    ELSE "transfer"

StatedDist(n1, n2) ==
    (IF n1.floorId > n2.floorId THEN n1.floorId - n2.floorId
     ELSE n2.floorId - n1.floorId) * 150

SumOver(S, f(_)) ==
    LET RECURSIVE go(_)
        go(T) == IF T = {} THEN 0
                 ELSE LET x == CHOOSE x \in T : TRUE IN f(x) + go(T \ {x})
    IN go(S)

PairCount(key) == (Cardinality(Group(key)) * (Cardinality(Group(key)) - 1)) \div 2

\* C7 amended: a key with N >= 2 node records has exactly N x (N-1) directed
\* transfer entries among its nodes, one in each direction for every pair of
\* its records; entries of intra-floor edges between grouped nodes come on top
C7_TransferClique ==
    Loaded =>
        /\ \A key \in StatedKeys :
              LET N == Cardinality(Group(key))
              IN N >= 2 =>
                   /\ Cardinality(Among(key, Typed)) = N * (N - 1)
                   /\ \A i, j \in Group(key) : i # j =>
                         \E k \in DOMAIN adj[globalNodes[i].id] :
                             /\ adj[globalNodes[i].id][k].to = globalNodes[j].id
                             /\ Typed(adj[globalNodes[i].id][k])
        /\ SumOver(DOMAIN adj, LAMBDA a : Cardinality({k \in DOMAIN adj[a] : Typed(adj[a][k])}))
              = 2 * SumOver(StatedKeys, PairCount)

\* a key grouping three floors' stairs, and a key whose two nodes are also
\* joined by an intra-floor edge
C7_Witness ==
    /\ Loaded
    /\ \E key \in StatedKeys : Cardinality(Group(key)) >= 3
    /\ \E key \in StatedKeys :
          /\ Cardinality(Group(key)) >= 2
          /\ Cardinality(Among(key, KeepAll)) > Cardinality(Among(key, Typed))

IsTransfer(e) == "floorId" \notin DOMAIN e

\* C8: every pair of records sharing a connection key got one transfer edge,
\* of dist |floor difference| x 150 and of type elevator / stairs / transfer
\* by the two endpoint types; stairs "S" on floors 1 and 2 alone are joined
\* by exactly one transfer edge, stairs, 150
C8_TransferEdges ==
    Loaded =>
        /\ \A key \in StatedKeys : \A i, j \in Group(key) : i < j =>
              Cardinality({k \in DOMAIN globalEdges :
                  /\ IsTransfer(globalEdges[k])
                  /\ globalEdges[k].from = globalNodes[i].id
                  /\ globalEdges[k].to = globalNodes[j].id}) = 1
        /\ \A k \in DOMAIN globalEdges : IsTransfer(globalEdges[k]) =>
              \E key \in StatedKeys : \E i, j \in Group(key) :
                  /\ i < j
                  /\ globalEdges[k] =
                        [from |-> globalNodes[i].id, to |-> globalNodes[j].id,
                         dist |-> StatedDist(globalNodes[i], globalNodes[j]),
                         type |-> StatedType(globalNodes[i], globalNodes[j])]
        /\ Cardinality({k \in DOMAIN globalEdges : IsTransfer(globalEdges[k])})
              = SumOver(StatedKeys, PairCount)
        /\ GroupIds(<<"S">>) = {<<1, "b">>, <<2, "b">>} =>
              LET st == {k \in DOMAIN globalEdges :
                           /\ IsTransfer(globalEdges[k])
                           /\ {globalEdges[k].from, globalEdges[k].to} \subseteq GroupIds(<<"S">>)}
              IN /\ Cardinality(st) = 1
                 /\ \A k \in st :
                       /\ {globalEdges[k].from, globalEdges[k].to} = {<<1, "b">>, <<2, "b">>}
                       /\ globalEdges[k].type = "stairs"
                       /\ globalEdges[k].dist = 150

\* the stairs scenario, in a graph that also holds a mixed-type pair
C8_Witness ==
    /\ Loaded
    /\ \E k \in DOMAIN globalEdges :
          IsTransfer(globalEdges[k]) /\ globalEdges[k].type = "transfer"
    /\ GroupIds(<<"S">>) = {<<1, "b">>, <<2, "b">>}
    /\ \E k \in DOMAIN globalEdges :
          globalEdges[k] = [from |-> <<1, "b">>, to |-> <<2, "b">>, dist |-> 150, type |-> "stairs"]

\* the local ids of the node records of a floor file
LocalIds(f) ==
    IF "failed" \in DOMAIN floorJson[f] THEN {}
    ELSE {floorJson[f].nodes[i].id : i \in DOMAIN floorJson[f].nodes}

\* the stored edges a floor file is stated to yield, in file order
StatedEdges(f) ==
    IF "failed" \in DOMAIN floorJson[f] THEN <<>>
    ELSE LET ok(r) == r.from \in LocalIds(f) /\ r.to \in LocalIds(f)
             kept == SelectSeq(floorJson[f].edges, ok)
         IN [i \in DOMAIN kept |->
               [from |-> <<f, kept[i].from>>, to |-> <<f, kept[i].to>>,
                dist |-> IF "dist" \in DOMAIN kept[i] /\ kept[i].dist \in {Num(n) : n \in 0..100}
                         THEN kept[i].dist.val ELSE 1,
                floorId |-> f]]

StoredEdges(f) ==
    LET of(e) == "floorId" \in DOMAIN e /\ e.floorId = f
    IN SelectSeq(globalEdges, of)

\* C9: every stored edge and adjacency entry has both endpoints in the node
\* map; of each loaded floor file exactly the edges with both endpoints
\* present are stored, the later ones included, a missing dist stored as 1
C9_EdgesResolved ==
    /\ \A i \in DOMAIN globalEdges :
          globalEdges[i].from \in DOMAIN idMap /\ globalEdges[i].to \in DOMAIN idMap
    /\ \A a \in DOMAIN adj :
          a \in DOMAIN idMap /\ \A k \in DOMAIN adj[a] : adj[a][k].to \in DOMAIN idMap
    /\ pc \in {"json", "ready"} =>
          \A f \in FLOORS \ pending : StoredEdges(f) = StatedEdges(f)

\* a file with a dangling edge followed by edges that were kept, one of them
\* without a dist, and a file with an edge whose dist is a string
C9_Witness ==
    /\ Loaded
    /\ \E f \in FLOORS :
          /\ Len(StoredEdges(f)) > 0
          /\ Len(StoredEdges(f)) < Len(floorJson[f].edges)
          /\ \E i \in DOMAIN floorJson[f].edges : "dist" \notin DOMAIN floorJson[f].edges[i]
    /\ \E f \in FLOORS : \E i \in DOMAIN StoredEdges(f) :
          /\ floorJson[f].edges[i] = EdS("b", "a", "3")
          /\ StoredEdges(f)[i].dist = 1

\* C10: no two node records of globalNodes carry the same id
C10_UniqueIds ==
    \A i, j \in DOMAIN globalNodes : i # j => globalNodes[i].id # globalNodes[j].id


-----------------------------------------------------------------------------
(* Claims about the layout (specification Spec) *)

\* the floor of a path id, 0 when the id does not resolve
FloorOf(id) == IF id \in DOMAIN idMap THEN globalNodes[idMap[id]].floorId ELSE 0

\* the floors stated to be intermediate for the path of the last layout call
StatedIntermediates ==
    IF layoutPath = <<>> THEN {}
    ELSE LET sf == FloorOf(layoutPath[1])
             ef == FloorOf(layoutPath[Len(layoutPath)])
         IN IF sf = 0 \/ ef = 0 \/ sf = ef THEN {}
            ELSE {f \in FLOORS : (sf < f /\ f < ef) \/ (ef < f /\ f < sf)}

\* stated scale, opacity (tenths) and gap (tenths of a world unit) of a floor
StatedScale(f) == IF f \in StatedIntermediates THEN 6 ELSE 10
StatedOpacity(f) == IF f \in StatedIntermediates THEN 3 ELSE 10
StatedGap(f) == IF f \in StatedIntermediates THEN 200 ELSE 2000

\* C12: after updateFloorLayout(path) exactly the floors strictly between the
\* two different floors the path spans have scale 0.6, opacity 0.3 and gap
\* 0.1 x 200, every other floor 1.0, 1.0 and 200; the top floor is at y 0
\* and each floor below at the y of the floor above + its baseHeight x scale
\* + its gap
C12_Layout ==
    pc \in {"loaded", "ready"} =>
        /\ DOMAIN floorVisuals = FLOORS
        /\ \A f \in FLOORS :
              /\ floorVisuals[f].scale = StatedScale(f)
              /\ floorVisuals[f].opacity = StatedOpacity(f)
              /\ floorVisuals[f].y =
                    IF f = NumFloors THEN 0
                    ELSE floorVisuals[f + 1].y
                           + BaseHeight(f + 1) * StatedScale(f + 1) + StatedGap(f + 1)

\* a layout for a path from floor 1 to the top floor, floor 2 shrunk
C12_Witness ==
    /\ pc = "loaded"
    /\ layoutPath # <<>>
    /\ FloorOf(layoutPath[1]) = 1
    /\ FloorOf(layoutPath[Len(layoutPath)]) = NumFloors
    /\ 2 \in StatedIntermediates
    /\ floorVisuals[2].scale = 6
    /\ floorVisuals[1].y = floorVisuals[2].y + BaseHeight(2) * 6 + 200

\* C11: once calculatePath has set the active path, the FloorVisual of every
\* floor and the world coordinates of every node are those of the layout
\* computed from that path
C11_LayoutFollowsPath ==
    call.made =>
        LET l == UpdateFloorLayout(path, globalNodes, idMap)
        IN floorVisuals = l.floorVisuals /\ globalNodes = l.globalNodes

-----------------------------------------------------------------------------
(* Claims about the view (specification SpecViewer) *)

\* the scale k lies inside the scale extent of the zoom behaviour
InExtent(k) == IsFinite(k) /\ ~RLess(k, ScaleExtent[1]) /\ ~RLess(ScaleExtent[2], k)

\* C13: in every reachable state the scale of the transform lies inside the
\* scale extent [0.1, 5] of the zoom behaviour
C13_ScaleWithinExtent == InExtent(transform.k)

\* the translation a pan by the screen delta (dx, dy) is stated to add at a
\* rotation of theta degrees
StatedPan(dx, dy, theta) ==
    <<RAdd(RMul(R(dx), CosDeg(theta)), RMul(R(dy), SinDeg(theta))),
      RAdd(RMul(R(-dx), SinDeg(theta)), RMul(R(dy), CosDeg(theta)))>>

\* C14: a pointer move by (dx, dy) while dragging adds
\* (dx cos + dy sin, -dx sin + dy cos) of the rotation to the translation and
\* leaves scale and rotation as they are; at rotation 90 the delta (10, 0)
\* adds (0, -10), at rotation 0 the delta itself is added
C14_RotatedPan ==
    [][\A m \in Moves :
          (isDragging /\ PointerMove(m[1], m[2])) =>
              /\ transform'.k = transform.k
              /\ rotation' = rotation
              /\ transform'.x = RAdd(transform.x, StatedPan(m[1], m[2], rotation)[1])
              /\ transform'.y = RAdd(transform.y, StatedPan(m[1], m[2], rotation)[2])
              /\ (rotation = 90 /\ m = <<10, 0>>) =>
                    /\ transform'.x = transform.x
                    /\ transform'.y = RSub(transform.y, R(10))
              /\ rotation = 0 =>
                    /\ transform'.x = RAdd(transform.x, R(m[1]))
                    /\ transform'.y = RAdd(transform.y, R(m[2]))]_vars

\* a drag by (10, 0) at rotation 90 has moved the translation by (0, -10)
C14_Witness ==
    /\ viewCall.op = "applyRotatedPan"
    /\ viewCall.args = <<10, 0>>
    /\ rotation = 90
    /\ running = NoTransition
    /\ transform.x = viewCall.found.x
    /\ transform.y = RSub(viewCall.found.y, R(10))
    /\ transform.k = viewCall.found.k

SetMax(S) == CHOOSE m \in S : \A x \in S : x <= m

\* the positions (tenths) a fit is asked for: of the nodes given to fitBounds
\* that carry one, of the path ids given to fitToPath that resolve
FitPoints ==
    IF viewCall.op = "fitBounds"
    THEN {<<viewCall.args[i].x, viewCall.args[i].y>> :
            i \in {j \in DOMAIN viewCall.args : HasPosition(viewCall.args[j])}}
    ELSE IF viewCall.op = "fitToPath"
    THEN {<<globalNodes[idMap[viewCall.args[i]]].x, globalNodes[idMap[viewCall.args[i]]].y>> :
            i \in {j \in DOMAIN viewCall.args : viewCall.args[j] \in DOMAIN idMap}}
    ELSE {}

\* the stated scale of a fit of the points P with the upper clamp maxScale
StatedFitScale(P, maxScale) ==
    LET paddedWidth == RAdd(Q(SetMax({p[1] : p \in P}) - SetMin({p[1] : p \in P}), Scale),
                            R(200))
        paddedHeight == RAdd(Q(SetMax({p[2] : p \in P}) - SetMin({p[2] : p \in P}), Scale),
                             R(200))
        fit == RMin(RDiv(R(CanvasWidth), paddedWidth), RDiv(R(CanvasHeight), paddedHeight))
    IN IF RLess(fit, Q(2, 10)) THEN Q(2, 10)
       ELSE IF RLess(maxScale, fit) THEN maxScale ELSE fit

\* the point of the canvas the transform t shows the centre of the box of P at
ShownCentre(P, t) ==
    <<RAdd(t.x, RMul(Q(SetMin({p[1] : p \in P}) + SetMax({p[1] : p \in P}), 2 * Scale), t.k)),
      RAdd(t.y, RMul(Q(SetMin({p[2] : p \in P}) + SetMax({p[2] : p \in P}), 2 * Scale), t.k))>>

\* C15: a fitBounds over nodes with positions aims at the scale
\* min(canvasWidth / paddedWidth, canvasHeight / paddedHeight), 100 of padding
\* on every side, clamped to [0.2, 3.0], and at the translation that shows the
\* centre of the bounding box at the centre of the canvas; fitToPath does the
\* same with the clamp [0.2, 2.0]; a single node at (500, 500) is shown at
\* (400, 300) of the 800 x 600 canvas
C15_Fit ==
    (viewCall.op \in {"fitBounds", "fitToPath"} /\ FitPoints # {}) =>
        /\ viewCall.scheduled
        /\ viewTargets.transform.k =
              StatedFitScale(FitPoints, IF viewCall.op = "fitBounds" THEN R(3) ELSE R(2))
        /\ ShownCentre(FitPoints, viewTargets.transform)
              = <<Q(CanvasWidth, 2), Q(CanvasHeight, 2)>>
        /\ (scheduled = <<>> /\ running = NoTransition) => transform = viewTargets.transform
        /\ FitPoints = {<<500 * Scale, 500 * Scale>>} =>
              ShownCentre(FitPoints, viewTargets.transform) = <<R(400), R(300)>>

\* fitBounds of the single node at (500, 500) has come to rest at scale 3
\* with the node at (400, 300)
C15_Witness ==
    /\ viewCall.op = "fitBounds"
    /\ FitPoints = {<<500 * Scale, 500 * Scale>>}
    /\ scheduled = <<>> /\ running = NoTransition
    /\ transform.k = R(3)
    /\ RAdd(transform.x, RMul(R(500), transform.k)) = R(400)
    /\ RAdd(transform.y, RMul(R(500), transform.k)) = R(300)

FiniteTransform(t) == IsFinite(t.k) /\ IsFinite(t.x) /\ IsFinite(t.y)

\* C16: no NaN and no infinite value is ever written to the transform: a fit
\* whose computed scale or translation is not finite leaves the transform as
\* it was
C16_FiniteTransform == FiniteTransform(transform)

\* the direction in degrees of the segment from the node a to the node b
Heading(a, b) ==
    Atan2Deg(globalNodes[idMap[b]].y - globalNodes[idMap[a]].y,
             globalNodes[idMap[b]].x - globalNodes[idMap[a]].x)

\* C17: fitToPath of a non-empty path aims the rotation at -90 - deg + 15
\* (modulo full turns), deg the direction of the segment from the first to
\* the second path node, when auto-rotation is enabled and the path has two
\* nodes or more; at 0 when auto-rotation is disabled; with auto-rotation
\* enabled and a one-node path it leaves the rotation as it is
C17_TargetRotation ==
    [][\A p \in ViewPaths :
          (Len(p) > 0 /\ CallFitToPath(p)) =>
              /\ (enableAutoRotation /\ Len(p) >= 2
                    /\ p[1] \in DOMAIN idMap /\ p[2] \in DOMAIN idMap) =>
                    (viewTargets'.rotation.to - (-90 - Heading(p[1], p[2]) + 15)) % 360 = 0
              /\ ~enableAutoRotation => viewTargets'.rotation.to % 360 = 0
              /\ (enableAutoRotation /\ Len(p) = 1) => viewTargets'.rotation.to = rotation]_vars

\* with auto-rotation enabled, fitToPath of the path from (500, 500) to
\* (500, 300), direction -90 degrees, has turned the map from 0 to 15
C17_Witness ==
    /\ viewCall.op = "fitToPath"
    /\ viewCall.args = << ViewNode(1).id, ViewNode(2).id >>
    /\ Heading(ViewNode(1).id, ViewNode(2).id) = -90
    /\ enableAutoRotation
    /\ scheduled = <<>> /\ running = NoTransition
    /\ viewTargets.rotation.to = 15
    /\ rotation = 15

\* C18: setRotation and fitToPath animate from the current rotation to
\* current + delta with |delta| <= 180, and for setRotation(angle) that final
\* rotation is congruent to angle modulo 360; from 170 to -170 the delta is
\* +20 and the final rotation 190
C18_ShortestTurn ==
    [][/\ \A angle \in Angles :
             CallSetRotation(angle) =>
                 /\ Abs(viewTargets'.rotation.to - rotation) <= 180
                 /\ (viewTargets'.rotation.to - angle) % 360 = 0
                 /\ (rotation = 170 /\ angle = -170) => viewTargets'.rotation.to = 190
       /\ \A p \in ViewPaths :
             (Len(p) > 0 /\ CallFitToPath(p)) =>
                 Abs(viewTargets'.rotation.to - rotation) <= 180
       /\ ToggleRotation(FALSE) =>
             /\ Abs(viewTargets'.rotation.to - rotation) <= 180
             /\ viewTargets'.rotation.to % 360 = 0]_vars

\* setRotation(-170) at rotation 170 has ended at 190
C18_Witness ==
    /\ viewCall.op = "setRotation"
    /\ viewCall.args = -170
    /\ scheduled = <<>> /\ running = NoTransition
    /\ viewTargets.rotation.to = 190
    /\ rotation = 190

AtRest == scheduled = <<>> /\ running = NoTransition

\* C19: once no animation is scheduled or running, scale and translation
\* equal the transform the most recent fit, focus, pan-to-node or floor
\* switch aimed at, and the rotation equals the rotation the most recent
\* fitToPath or setRotation aimed at, whatever calls were made while earlier
\* animations were running
C19_LastWriteWins ==
    (AtRest /\ viewCall.op \in {"fitToPath", "fitBounds", "focusNode", "setRotation"}
            /\ viewCall.scheduled /\ viewCall.animating) =>
        /\ viewTargets.transform # None => transform = viewTargets.transform
        /\ viewTargets.rotation # None => rotation = viewTargets.rotation.to

-----------------------------------------------------------------------------
(* Claims about the controller (specification Spec) *)

\* C20: a step in which calculatePath runs, or in which a selector or the
\* accessibility flag is set, is taken only when loadAllData has completed:
\* every floor file is handled and the graph and the layout are built
C20_RoutesAfterLoad ==
    [][(call' # call \/ startSelect' # startSelect \/ endSelect' # endSelect
          \/ accessibilityMode' # accessibilityMode) =>
          /\ pc \in {"loaded", "ready"}
          /\ pending = {}
          /\ DOMAIN floorVisuals = FLOORS]_vars

\* a route has been planned, and found, after the load
C20_Witness ==
    /\ call.made
    /\ pc = "ready"
    /\ call.ret # <<>>
    /\ path = call.ret
    /\ startSelect = call.startId /\ endSelect = call.endId

-----------------------------------------------------------------------------
(* Claims about edge weights, the layout and the build (SpecLayout) *)

\* the entries of the adjacency cache
AdjEntries == UNION {Range(adj[id]) : id \in DOMAIN adj}

\* C21: every edge of the built graph has dist >= 0, and in accessibility
\* mode the effective weight of every elevator edge is strictly below its
\* base dist and that of every stairs edge strictly above it
C21_Weights ==
    pc \in {"loaded", "ready"} =>
        /\ \A i \in DOMAIN globalEdges : globalEdges[i].dist >= 0
        /\ \A e \in AdjEntries :
              /\ e.type = "elevator" => EdgeWeight(e, TRUE) < e.dist * Scale
              /\ e.type = "stairs" => EdgeWeight(e, TRUE) > e.dist * Scale

\* C22: after every updateFloorLayout every node object has world
\* y = localY x scale + y offset and world x = baseX x scale of the
\* FloorVisual now held for its floor (coordinates and scale in tenths)
C22_NodesPlaced ==
    pc \in {"loaded", "ready"} =>
        \A i \in DOMAIN globalNodes :
            LET n == globalNodes[i]
                vis == floorVisuals[n.floorId]
            IN /\ n.y = n.localY * vis.scale + vis.y
               /\ n.x * Scale = n.baseX * vis.scale

\* a layout that shrinks floor 2 after the default layout: a node of floor 2
\* has moved in x and y
C22_Witness ==
    /\ pc = "loaded"
    /\ layoutPath # <<>>
    /\ floorVisuals[2].scale = IntermediateScale
    /\ \E i \in DOMAIN globalNodes :
          /\ globalNodes[i].floorId = 2
          /\ globalNodes[i].x # globalNodes[i].baseX
          /\ globalNodes[i].x * Scale = globalNodes[i].baseX * IntermediateScale
          /\ globalNodes[i].y = globalNodes[i].localY * IntermediateScale + floorVisuals[2].y

\* C23: updateFloorLayout called again with the path of the call before it
\* changes no FloorVisual and no node, and the result of any call is left as
\* it is by the layout of the same path, whatever layout was active before
C23_Idempotent ==
    [][\A p \in LayoutPaths :
          CallUpdateFloorLayout(p) =>
              /\ layoutPath = p => (floorVisuals' = floorVisuals /\ globalNodes' = globalNodes)
              /\ UpdateFloorLayout(p, globalNodes', idMap')
                    = [floorVisuals |-> floorVisuals', globalNodes |-> globalNodes']]_vars

\* the layout of a path from floor 1 to the top floor, reached from another
\* layout, is what one more call for that path gives
C23_Witness ==
    /\ pc = "loaded"
    /\ layoutPath \in LayoutPaths
    /\ StatedIntermediates # {}
    /\ \E i \in DOMAIN globalNodes : globalNodes[i].floorId \in StatedIntermediates
    /\ UpdateFloorLayout(layoutPath, globalNodes, idMap)
          = [floorVisuals |-> floorVisuals, globalNodes |-> globalNodes]

-----------------------------------------------------------------------------
(* Claims about the pointer handlers (specification SpecViewer) *)

\* C24: isDragging becomes true only in a mousedown or a single-finger
\* touchstart and is false after every mouseup or touchend; a mouse or touch
\* move changes the transform while isDragging is true and leaves transform,
\* zoom state and rotation as they are while it is false
C24_DragMachine ==
    [][/\ (~isDragging /\ isDragging') => (PointerDown \/ TouchStart(1))
       /\ (PointerDown \/ TouchStart(1)) => isDragging'
       /\ PointerUp => ~isDragging'
       /\ (isDragging /\ ~isDragging') => PointerUp
       /\ \A m \in Moves :
             /\ (~isDragging /\ (PointerMove(m[1], m[2]) \/ TouchMove(1, m[1], m[2]))) =>
                   (transform' = transform /\ zoomState' = zoomState
                      /\ rotation' = rotation /\ ~isDragging')
             /\ (isDragging /\ FiniteTransform(transform)
                   /\ (PointerMove(m[1], m[2]) \/ TouchMove(1, m[1], m[2]))) =>
                   (transform' # transform /\ isDragging')]_vars

\* a drag has moved the transform and has ended
C24_Witness ==
    /\ ~isDragging
    /\ viewCall.op = "applyRotatedPan"
    /\ FiniteTransform(viewCall.found)
    /\ transform # viewCall.found
    /\ inputs = MaxInputs

\* the adjacency cache a build makes of the node list and the edge list
CacheOf(nodes, edges) ==
    BuildAdj(edges, 1, [k \in {nodes[i].id : i \in DOMAIN nodes} |-> <<>>])

RECURSIVE LoadInOrder(_, _)
LoadInOrder(f, st) ==
    IF f > NumFloors THEN st
    ELSE LoadInOrder(f + 1, LoadFloor(f, floorJson[f], st))

\* what loadAllData leaves when the fetches complete in the order of FLOORS,
\* laid out for the path the layout was last asked for
InOrderLoad ==
    LET st == LoadInOrder(1, [globalNodes |-> <<>>, globalEdges |-> <<>>,
                              idMap |-> EmptyMap])
    IN [nodes |-> st.globalNodes,
        idMap |-> st.idMap,
        adj |-> BuildGlobalGraph(st.globalNodes, st.globalEdges).adj,
        placed |-> UpdateFloorLayout(layoutPath, st.globalNodes, st.idMap).globalNodes]

\* the node map: id -> the object the id stands for
NodeMapOf(nodes, im) == [id \in DOMAIN im |-> nodes[im[id]]]

\* how often x occurs in the list s
Occurrences(s, x) == Cardinality({k \in DOMAIN s : s[k] = x})

\* C26: whatever the order in which the per-floor JSON callbacks ran, the
\* node map and, node by node, the multiset of adjacency entries after
\* loadAllData are those of the load in the order of FLOORS
C26_OrderFree ==
    Loaded =>
        LET ref == InOrderLoad
        IN /\ NodeMapOf(globalNodes, idMap) = NodeMapOf(ref.placed, ref.idMap)
           /\ DOMAIN adj = DOMAIN ref.adj
           /\ \A id \in DOMAIN adj :
                 \A en \in Range(adj[id]) \cup Range(ref.adj[id]) :
                    Occurrences(adj[id], en) = Occurrences(ref.adj[id], en)

\* a load whose callbacks ran in another order than FLOORS: the node list and
\* the list of entries of some node differ from the in-order ones, and
\* transfer edges across the floors were made
C26_Witness ==
    /\ Loaded
    /\ layoutPath = <<>>
    /\ globalNodes # InOrderLoad.placed
    /\ \E id \in DOMAIN adj :
          /\ adj[id] # InOrderLoad.adj[id]
          /\ \E k \in DOMAIN adj[id] :
                adj[id][k].type # Undefined /\ adj[id][k].to[1] # id[1]


-----------------------------------------------------------------------------
(* Claims about the search loop (specification SpecPlan) *)

\* no element occurs twice in the list s
NoRepeat(s) == \A i, j \in DOMAIN s : s[i] = s[j] => i = j

\* the search of the last call, run again on the graph it ran on
CallSearch ==
    Dijkstra(call.startId, TargetIds(call.endId, globalNodes, idMap), adj, call.mode)

\* C27: a calculatePath that enters the search ends it: the loop runs at most
\* once per heap entry ever pushed, no node is expanded twice, the loop ends
\* with the first target expanded or with the heap empty, and the returned
\* path starts at the start and repeats no node
C27_Terminates ==
    (CallResolved /\ TargetIds(call.endId, globalNodes, idMap) # {}) =>
        LET r == CallSearch
            st == r.search
            targetIds == TargetIds(call.endId, globalNodes, idMap)
            n == Len(st.expanded)
        IN /\ call.ret = r.path
           /\ NoRepeat(st.expanded)
           /\ st.pops <= 1 + 2 * Len(globalEdges)
           /\ \A k \in 1..(n - 1) : st.expanded[k] \notin targetIds
           /\ IF st.finalDestId # <<>>
              THEN st.expanded[n] = st.finalDestId[1] /\ st.finalDestId[1] \in targetIds
              ELSE Len(st.pq) = 0 /\ (n > 0 => st.expanded[n] \notin targetIds)
           /\ call.ret # <<>> =>
                 /\ call.ret[1] = call.startId
                 /\ NoRepeat(call.ret)
                 /\ Len(call.ret) <= NumNodes

\* a search that popped a stale entry of a node it had expanded before, went
\* on, and returned a path over all three nodes
C27_Witness ==
    /\ CallResolved
    /\ Len(call.ret) = NumNodes
    /\ CallSearch.search.pops > Len(CallSearch.search.expanded)
    /\ Len(CallSearch.search.expanded) = NumNodes


-----------------------------------------------------------------------------
(* Claims about the scanner (specification SpecScanner) *)

\* C28: after every step that leaves the scanner stopped no stream is
\* attached to the video element, no step taken while the scanner is stopped
\* decodes a frame, and no more than one result is reported between two
\* startScanner calls
C28_StoppedScanner ==
    [][/\ ~scanner'.isScanning => scanner'.srcObject = 0
       /\ ~scanner.isScanning => scanner'.lastTick \notin {"decoded", "reported"}
       /\ scanner'.reported <= 1]_vars


-----------------------------------------------------------------------------
(* Claims about the route list (specification Spec) *)

\* C29: the steps shown in the route list are those of the engine's active
\* path; with no active path no step is shown
C29_ListFollowsPath == routeList = RouteSteps(path)


-----------------------------------------------------------------------------
(* Claims about MinHeap (specification SpecHeap) *)

\* every entry's dist is not smaller than its parent's
HeapOrdered(h) == \A n \in 2..Len(h) : h[n].dist >= h[n \div 2].dist

\* how many entries of the list h have the dist d
Holding(h, d) == Cardinality({n \in DOMAIN h : h[n].dist = d})

\* C30: after every push and pop the heap is ordered and size() is the
\* number of pushes less the pops that returned an entry; a pop of an empty
\* heap returns null, any other pop returns an entry of the least dist held
\* and takes exactly that entry away; a push adds exactly its entry
C30_MinHeap ==
    [][/\ HeapOrdered(minHeap'.heap)
       /\ Size(minHeap') = minHeap'.pushes - minHeap'.returned
       /\ Pop =>
            IF Len(minHeap.heap) = 0
            THEN minHeap'.min = Null /\ minHeap'.heap = <<>>
            ELSE /\ \A n \in DOMAIN minHeap.heap :
                       minHeap'.min.dist <= minHeap.heap[n].dist
                 /\ \A d \in HeapDists :
                       Holding(minHeap'.heap, d) =
                          Holding(minHeap.heap, d) - (IF d = minHeap'.min.dist THEN 1 ELSE 0)
       /\ \A dist \in HeapDists : Push(dist) =>
             \A d \in HeapDists :
                Holding(minHeap'.heap, d) =
                   Holding(minHeap.heap, d) + (IF d = dist THEN 1 ELSE 0)]_vars

\* pops have emptied a heap that had been filled to MaxHeapSize: every push
\* was answered by a pop that returned an entry, the last one the largest dist
C30_Witness ==
    /\ minHeap.pushes >= MaxHeapSize
    /\ minHeap.returned = minHeap.pushes
    /\ minHeap.heap = <<>>
    /\ minHeap.min # Null /\ minHeap.min.dist = 3

=============================================================================
